---- MODULE Spec2Model ----
(***************************************************************************)
(* Model of the A2A protocol runtime of mapfre_agentkit:                   *)
(*   - the authentication gateway (a2a/auth/middleware.py) with its        *)
(*     credential strategies (a2a/auth/credential_services/*.py);          *)
(*   - the client-credentials token cache of CognitoM2MCredentialService;  *)
(*   - the outbound header propagation interceptor (a2a/interceptors);     *)
(*   - the task executors (a2a/executors): execute() and cancel() of the   *)
(*     ADK and LangChain adapters, stepped at their await points;          *)
(*   - the remote agent registry (agents/frameworks) and its initialize(); *)
(*   - the response normalizer (a2a/client/app_client.py send_message).    *)
(* Python strings are TLA+ strings; Python exceptions are class names with *)
(* their ancestor sets, and a try/except is the first handler that matches.*)
(***************************************************************************)
EXTENDS Integers, Sequences, FiniteSets, TLC

VARIABLES
    ctorArgs,        \* arguments Middleware.__init__ was called with
    ctor,            \* "pending", "ok", or the exception class __init__ raised
    mw,              \* the Middleware object (fields set by __init__)
    last,            \* record of the dispatch in progress / just answered
    served,          \* the requests the process serves concurrently: position, outcome
    loop,            \* the request whose synchronous code holds the event loop, 0 if none
    now,             \* time.time()
    _access_token,   \* CognitoM2MCredentialService._access_token
    _expires_at,     \* CognitoM2MCredentialService._expires_at
    held,            \* the grant the cached token came from (token, fetch time, expires_in)
    grants,          \* number of POSTs sent to the token endpoint
    call,            \* record of the last get_credentials call
    callers,         \* concurrent get_credentials calls: position and outcome of each
    hpi,             \* the HeadersPropagationInterceptor object (fields set by __init__)
    icall,           \* record of the intercept call in progress / just returned
    chain,           \* one outbound call through the interceptors of a connection
    executor,        \* the AgentExecutor object: which adapter, which TaskUpdater build
    _active_sessions,\* BaseAgentA2AExecutor._active_sessions
    exec,            \* the execute() calls: position, context, outcome
    event_queue,     \* the EventQueue of each execute() call
    cancelCall,      \* record of the cancel() call in progress / just raised
    turn,            \* one execute() call followed alone, with the events it consumed
    registry,        \* the A2AAgentCommunicationBase object (fields set by __init__)
    initCall,        \* the initialize() call: position in its loop, exception that left
    toolCall,        \* the call on the agent strategy in progress / just returned
    norm             \* the send_message() call of A2AGatewayClient: ids, frames, events

gatewayVars == <<ctorArgs, ctor, mw, last>>
servingVars == <<served, loop>>
cacheVars == <<now, _access_token, _expires_at, held, grants, call>>
interceptorVars == <<hpi, icall>>
executorVars == <<executor, _active_sessions, exec, event_queue, cancelCall>>
registryVars == <<registry, initCall, toolCall>>
vars == <<ctorArgs, ctor, mw, last, served, loop, now, _access_token, _expires_at, held, grants, call,
          callers, hpi, icall, chain, executor, _active_sessions, exec, event_queue, cancelCall, turn,
          registry, initCall, toolCall, norm>>

\* what the actions of one component leave alone
notGateway == <<turn, callers, chain, servingVars, cacheVars, interceptorVars, executorVars, registryVars, norm>>
notCache == <<turn, callers, chain, gatewayVars, servingVars, interceptorVars, executorVars, registryVars, norm>>
notInterceptor == <<turn, callers, chain, gatewayVars, servingVars, cacheVars, executorVars, registryVars, norm>>
notExecutor == <<turn, callers, chain, gatewayVars, servingVars, cacheVars, interceptorVars, registryVars, norm>>
notRegistry == <<turn, callers, chain, gatewayVars, servingVars, cacheVars, interceptorVars, executorVars, norm>>
notNormalizer == <<turn, callers, chain, gatewayVars, servingVars, cacheVars, interceptorVars, executorVars, registryVars>>
notServing == <<turn, callers, chain, last, cacheVars, interceptorVars, executorVars, registryVars, norm>>
notTurn == <<callers, chain, gatewayVars, servingVars, cacheVars, interceptorVars, _active_sessions, exec,
             event_queue, cancelCall, registryVars, norm>>
notRace == <<turn, chain, call, gatewayVars, servingVars, interceptorVars, executorVars, registryVars,
             norm>>
notChain == <<turn, callers, gatewayVars, servingVars, cacheVars, interceptorVars, executorVars,
              registryVars, norm>>

---------------------------------------------------------------------------
(* Python values *)

\* Python None / a str, as one comparable shape
NoneVal == [some |-> FALSE, v |-> ""]
Some(s) == [some |-> TRUE, v |-> s]

\* str.startswith
StartsWith(s, p) == Len(s) >= Len(p) /\ SubSeq(s, 1, Len(p)) = p

\* `needle in hay` for two str
Contains(hay, needle) ==
    \E i \in 1..(Len(hay) - Len(needle) + 1) : SubSeq(hay, i, i + Len(needle) - 1) = needle

\* index of the first occurrence of needle in s at or after i, 0 when there is none
RECURSIVE FindFrom(_, _, _)
FindFrom(s, needle, i) ==
    IF i + Len(needle) - 1 > Len(s) THEN 0
    ELSE IF SubSeq(s, i, i + Len(needle) - 1) = needle THEN i
    ELSE FindFrom(s, needle, i + 1)

\* str.split(sep) for a non-empty separator: the list of pieces
RECURSIVE SplitSep(_, _)
SplitSep(s, sep) ==
    LET k == FindFrom(s, sep, 1) IN
    IF k = 0 THEN <<s>>
    ELSE <<SubSeq(s, 1, k - 1)>> \o SplitSep(SubSeq(s, k + Len(sep), Len(s)), sep)

IsSpace(c) == c \in {" ", "\t", "\n"}

\* str.split() with no argument: the maximal runs of non-whitespace characters
RECURSIVE SplitWsFrom(_, _, _)
SplitWsFrom(s, i, cur) ==
    IF i > Len(s) THEN (IF cur = "" THEN <<>> ELSE <<cur>>)
    ELSE IF IsSpace(SubSeq(s, i, i))
         THEN (IF cur = "" THEN <<>> ELSE <<cur>>) \o SplitWsFrom(s, i + 1, "")
         ELSE SplitWsFrom(s, i + 1, cur \o SubSeq(s, i, i))

SplitWs(s) == SplitWsFrom(s, 1, "")

Range(q) == {q[i] : i \in 1..Len(q)}

\* repr() of a list of str, as an f-string prints it: ['a', 'b']
RECURSIVE ReprItems(_)
ReprItems(q) ==
    IF Len(q) = 0 THEN ""
    ELSE IF Len(q) = 1 THEN "'" \o q[1] \o "'"
    ELSE "'" \o q[1] \o "', " \o ReprItems(Tail(q))

ReprList(q) == "[" \o ReprItems(q) \o "]"

\* [x for x in q if keep(x)]
RECURSIVE SelectNotIn(_, _)
SelectNotIn(q, S) ==
    IF Len(q) = 0 THEN <<>>
    ELSE (IF q[1] \in S THEN <<>> ELSE <<q[1]>>) \o SelectNotIn(Tail(q), S)

---------------------------------------------------------------------------
(* Python exceptions: each class with the classes an `except` clause matches it by *)

Ancestors(exc) ==
    CASE exc = "Timeout" -> {"Timeout", "RequestException", "OSError", "Exception"}
      [] exc = "ConnectionError" -> {"ConnectionError", "RequestException", "OSError", "Exception"}
      [] exc = "HTTPError" -> {"HTTPError", "RequestException", "OSError", "Exception"}
      [] exc = "TooManyRedirects" -> {"TooManyRedirects", "RequestException", "OSError", "Exception"}
      [] exc = "MissingSchema" ->
            {"MissingSchema", "RequestException", "OSError", "ValueError", "Exception"}
      [] exc = "RequestsJSONDecodeError" ->
            {"RequestsJSONDecodeError", "InvalidJSONError", "RequestException", "OSError",
             "JSONDecodeError", "ValueError", "Exception"}
      [] exc = "JSONDecodeError" -> {"JSONDecodeError", "ValueError", "Exception"}
      [] exc = "ExpiredSignatureError" ->
            {"ExpiredSignatureError", "InvalidTokenError", "PyJWTError", "Exception"}
      [] exc = "InvalidSignatureError" ->
            {"InvalidSignatureError", "DecodeError", "InvalidTokenError", "PyJWTError", "Exception"}
      [] exc = "DecodeError" -> {"DecodeError", "InvalidTokenError", "PyJWTError", "Exception"}
      [] exc = "InvalidKeyError" -> {"InvalidKeyError", "PyJWTError", "Exception"}
      [] exc = "CancelledError" -> {"CancelledError", "BaseException"}
      [] OTHER -> {exc, "Exception"}

\* the first `except` clause of `handlers` (a sequence of class names) matching exc; 0 when none
RECURSIVE FirstHandler(_, _, _)
FirstHandler(handlers, exc, i) ==
    IF i > Len(handlers) THEN 0
    ELSE IF handlers[i] \in Ancestors(exc) THEN i
    ELSE FirstHandler(handlers, exc, i + 1)

\* outcome of a call: a returned value or a raised exception
Ret(v) == [raised |-> FALSE, exc |-> "", val |-> v]
Raise(e) == [raised |-> TRUE, exc |-> e, val |-> NoneVal]

---------------------------------------------------------------------------
(* The JWKS endpoint and the bearer tokens: what the network and PyJWT answer *)

\* key documents the JWKS endpoint can serve as JSON
KeySets ==
    { {}, {[kid |-> "k1", mat |-> "m1"]},
      {[kid |-> "k1", mat |-> "m1"], [kid |-> "k2", mat |-> "m2"]},
      {[kid |-> "k1", mat |-> "m2"]} }

JwksDocs ==
    {[shape |-> "keys", keys |-> K] : K \in KeySets}
    \cup {[shape |-> s, keys |-> {}] : s \in {"list", "nokeys", "nokid", "badkey"}}

\* exceptions the body of get_keys' try block can end with (requests.get,
\* raise_for_status, response.json): response.json() on a non-JSON body raises
\* requests.exceptions.JSONDecodeError (requests >= 2.27, a RequestException and a
\* ValueError) or json.JSONDecodeError (older builds, a ValueError only)
FetchFailures ==
    {"Timeout", "ConnectionError", "HTTPError", "TooManyRedirects",
     "RequestsJSONDecodeError", "JSONDecodeError", "TypeError"}

JwksEnv ==
    {[k |-> "raise", exc |-> e, doc |-> [shape |-> "keys", keys |-> {}]] : e \in FetchFailures}
    \cup {[k |-> "json", exc |-> "", doc |-> d] : d \in JwksDocs}

StrScope(s) == [kind |-> "str", v |-> s]
NoScope == [kind |-> "absent", v |-> ""]
BadScope(k) == [kind |-> k, v |-> ""]

MkJwt(alg, kid, sig, expired, scope) ==
    [wellformed |-> TRUE, alg |-> alg, kid |-> kid, sig |-> sig, expired |-> expired,
     scope |-> scope]

\* what each bearer string decodes to: header (alg, kid), the key material that
\* signed it, whether `exp` has passed, and the `scope` claim of its payload
Jwt(token) ==
    CASE token = "Tadmin" -> MkJwt("RS256", "k1", "m1", FALSE, StrScope("admin"))
      [] token = "Tread" -> MkJwt("RS256", "k1", "m1", FALSE, StrScope("read"))
      [] token = "Tboth" -> MkJwt("RS256", "k1", "m1", FALSE, StrScope("read admin extra"))
      [] token = "Tjoined" -> MkJwt("RS256", "k1", "m1", FALSE, StrScope("readadmin"))
      [] token = "Tspaces" -> MkJwt("RS256", "k1", "m1", FALSE, StrScope(" admin\t read\n"))
      [] token = "Tempty" -> MkJwt("RS256", "k1", "m1", FALSE, StrScope(""))
      [] token = "Tnoscope" -> MkJwt("RS256", "k1", "m1", FALSE, NoScope)
      [] token = "Tlist" -> MkJwt("RS256", "k1", "m1", FALSE, BadScope("list"))
      [] token = "Tnull" -> MkJwt("RS256", "k1", "m1", FALSE, BadScope("null"))
      [] token = "Texpired" -> MkJwt("RS256", "k1", "m1", TRUE, StrScope("read admin"))
      [] token = "Tk2" -> MkJwt("RS256", "k2", "m2", FALSE, StrScope("read admin"))
      [] token = "Tforged" -> MkJwt("RS256", "k1", "m2", FALSE, StrScope("read admin"))
      [] token = "Tnone" -> MkJwt("none", "k1", "", FALSE, StrScope("read admin"))
      [] token = "Tnoalg" -> MkJwt("", "k1", "m1", FALSE, StrScope("read admin"))
      [] OTHER -> [wellformed |-> FALSE, alg |-> "", kid |-> "", sig |-> "", expired |-> FALSE,
                   scope |-> NoScope]

TokenStrings ==
    {"Tadmin", "Tread", "Tboth", "Tjoined", "Tspaces", "Tempty", "Tnoscope", "Tlist", "Tnull",
     "Texpired", "Tk2", "Tforged", "Tnone", "Tnoalg", "junk"}

---------------------------------------------------------------------------
(* CognitoM2MCredentialService: get_keys, get_token, validate_token *)

GetKeysHandlers ==
    <<"Timeout", "ConnectionError", "HTTPError", "RequestException", "ValueError", "TypeError">>

GetKeysRaises ==
    <<"JWKSFetchError", "JWKSFetchError", "JWKSFetchError", "JWKSFetchError",
      "JWKSParseError", "JWKSConfigError">>

\* the try block of get_keys: requests.get on the scheme's description, then
\* raise_for_status and response.json()
GetKeysBody(config, env) ==
    IF config.badUrl THEN Raise("MissingSchema")
    ELSE IF env.k = "raise" THEN Raise(env.exc)
    ELSE Ret(env.doc)

\* the exception mapping of get_keys: an unhandled class propagates as it is
get_keys(config, env) ==
    LET r == GetKeysBody(config, env)
        h == FirstHandler(GetKeysHandlers, r.exc, 1)
    IN IF ~r.raised THEN r
       ELSE IF h = 0 THEN r
       ELSE Raise(GetKeysRaises[h])

HeaderGet(headers, name) ==
    IF name \in DOMAIN headers THEN Some(headers[name]) ELSE NoneVal

get_token(request) ==
    LET auth_header == HeaderGet(request.headers, "authorization") IN
    IF ~auth_header.some \/ auth_header.v = "" \/ ~StartsWith(auth_header.v, "Bearer ")
    THEN Raise("InvalidAuthHeader")
    ELSE Ret(SplitSep(auth_header.v, "Bearer ")[2])

\* keys = {k["kid"]: RSAAlgorithm.from_jwk(...) for k in config.get("keys")}
KeysDict(doc) ==
    CASE doc.shape = "list" -> Raise("AttributeError")
      [] doc.shape = "nokeys" -> Raise("TypeError")
      [] doc.shape = "nokid" -> Raise("KeyError")
      [] doc.shape = "badkey" -> Raise("InvalidKeyError")
      [] OTHER -> Ret(doc.keys)

\* jwt.decode(token, pub_key, audience=None, algorithms=[algorithm])
JwtDecode(j, pub_key) ==
    IF j.alg = "" THEN Raise("InvalidAlgorithmError")
    ELSE IF j.alg = "none"
         THEN (IF pub_key.some THEN Raise("InvalidKeyError") ELSE Raise("InvalidSignatureError"))
    ELSE IF ~pub_key.some THEN Raise("TypeError")
    ELSE IF pub_key.v # j.sig THEN Raise("InvalidSignatureError")
    ELSE IF j.expired THEN Raise("ExpiredSignatureError")
    ELSE Ret([scope |-> j.scope])

validate_token(token, config) ==
    LET keys == KeysDict(config)
        j == Jwt(token)
        hit == {k \in keys.val : k.kid = j.kid}
        pub_key == IF hit = {} THEN NoneVal ELSE Some((CHOOSE k \in hit : TRUE).mat)
    IN IF keys.raised THEN keys
       ELSE IF ~j.wellformed THEN Raise("DecodeError")
       ELSE JwtDecode(j, pub_key)

---------------------------------------------------------------------------
(* Middleware.__init__ *)

NoSecurity == [isNone |-> TRUE, items |-> <<>>]
SecurityList(items) == [isNone |-> FALSE, items |-> items]
SchemeName(n) == [kind |-> "str", name |-> n, entries |-> <<>>]
SchemeDict(entries) == [kind |-> "dict", name |-> "", entries |-> entries]
OtherReq == [kind |-> "other", name |-> "", entries |-> <<>>]
Entry(n, claims) == [name |-> n, claims |-> claims]

NoSchemes == [isNone |-> TRUE, decl |-> {}]
Schemes(decl) == [isNone |-> FALSE, decl |-> decl]
Scheme(n, badUrl) == [name |-> n, badUrl |-> badUrl]

NoCard == [isNone |-> TRUE, security |-> NoSecurity, security_schemes |-> NoSchemes]
Card(sec, schemes) == [isNone |-> FALSE, security |-> sec, security_schemes |-> schemes]

NoAuthConfig == [isNone |-> TRUE, type |-> "noauth"]
AuthConfig(t) == [isNone |-> FALSE, type |-> t]

\* AUTH_STRATEGIES[auth.type]
AUTH_STRATEGIES(t) == IF t = "cognito" THEN "Cognito" ELSE "NoAuth"

MwObject(public_paths, service, has_claims, claims, scheme) ==
    [public_paths |-> public_paths, credential_service |-> service,
     has_required_claims |-> has_claims, required_claims |-> claims,
     security_scheme |-> scheme]

NoMw == MwObject({}, "None", FALSE, <<>>, Scheme("", TRUE))

\* the try block of __init__
InitBody(agent_card, auth, public_paths) ==
    IF agent_card.isNone THEN Raise("AttributeError")
    ELSE IF agent_card.security.isNone \/ Len(agent_card.security.items) = 0
    THEN Ret(MwObject(public_paths, AUTH_STRATEGIES("noauth"), FALSE, <<>>, Scheme("", TRUE)))
    ELSE
      LET sec_req == agent_card.security.items[1]
          emptyDict == sec_req.kind = "dict" /\ Len(sec_req.entries) = 0
          scheme_name == IF sec_req.kind = "str" THEN sec_req.name ELSE sec_req.entries[1].name
          required_claims == IF sec_req.kind = "str" THEN <<>> ELSE sec_req.entries[1].claims
          schemes == agent_card.security_schemes
          found == {x \in schemes.decl : x.name = scheme_name}
      IN IF sec_req.kind \notin {"str", "dict"} THEN Raise("ConfigurationError")
         ELSE IF emptyDict THEN Raise("IndexError")
         ELSE IF schemes.isNone THEN Raise("TypeError")
         ELSE IF found = {} THEN Raise("KeyError")
         ELSE IF auth.isNone THEN Raise("AttributeError")
         ELSE Ret(MwObject(public_paths, AUTH_STRATEGIES(auth.type), TRUE, required_claims,
                           CHOOSE x \in found : TRUE))

\* mutant: the handler list without its KeyError clause
InitHandlers_NoKeyError == <<"IndexError", "TypeError">>

InitHandlers == <<"IndexError", "KeyError", "TypeError">>

\* Middleware.__init__: every handled class is re-raised as ConfigurationError
MiddlewareInit(agent_card, auth, public_paths) ==
    LET r == InitBody(agent_card, auth, public_paths) IN
    IF ~r.raised THEN r
    ELSE IF FirstHandler(InitHandlers, r.exc, 1) # 0 THEN Raise("ConfigurationError")
    ELSE r

---------------------------------------------------------------------------
(* Middleware.dispatch and the three response builders *)

NextOut ==
    [kind |-> "next", status |-> 0, media_type |-> "", text |-> "",
     json |-> [error |-> "", reason |-> ""], exc |-> ""]

RaiseOut(e) ==
    [kind |-> "raise", status |-> 0, media_type |-> "", text |-> "",
     json |-> [error |-> "", reason |-> ""], exc |-> e]

PlainTextResponse(text, status) ==
    [kind |-> "response", status |-> status, media_type |-> "text/event-stream", text |-> text,
     json |-> [error |-> "", reason |-> ""], exc |-> ""]

JSONResponse(error, reason, status) ==
    [kind |-> "response", status |-> status, media_type |-> "application/json", text |-> "",
     json |-> [error |-> error, reason |-> reason], exc |-> ""]

\* request.headers.get("accept", "")
AcceptOf(request) ==
    IF "accept" \in DOMAIN request.headers THEN request.headers["accept"] ELSE ""

\* mutant: the 403 builder with the event-stream branch copied from the 401 builder
_forbidden_CopyPaste(reason, request) ==
    IF Contains(AcceptOf(request), "text/event-stream")
    THEN PlainTextResponse("error unauthorized: " \o reason, 401)
    ELSE JSONResponse("forbidden", reason, 403)

_forbidden(reason, request) ==
    IF Contains(AcceptOf(request), "text/event-stream")
    THEN PlainTextResponse("error forbidden: " \o reason, 403)
    ELSE JSONResponse("forbidden", reason, 403)

_unauthorized(reason, request) ==
    IF Contains(AcceptOf(request), "text/event-stream")
    THEN PlainTextResponse("error unauthorized: " \o reason, 401)
    ELSE JSONResponse("unauthorized", reason, 401)

_service_unavailable(reason, request) ==
    IF Contains(AcceptOf(request), "text/event-stream")
    THEN PlainTextResponse("error service unavailable: " \o reason, 503)
    ELSE JSONResponse("service_unavailable", reason, 503)

DispatchHandlers ==
    <<"JWKSFetchError", "JWKSParseError", "JWKSConfigError", "ExpiredSignatureError",
      "InvalidTokenError", "PyJWTError", "InvalidAuthHeader", "Exception">>

\* mutant: the InvalidAuthHeader clause answers with the 403 builder
HandlerResponse_AuthHeader403(h, request) ==
    CASE h = 1 -> _service_unavailable("Unable to fetch JWKS", request)
      [] h = 2 -> _unauthorized("Invalid JWKS format", request)
      [] h = 3 -> _unauthorized("Invalid JWKS configuration", request)
      [] h = 4 -> _unauthorized("Expired JWT", request)
      [] h = 5 -> _unauthorized("Invalid JWT", request)
      [] h = 6 -> _unauthorized("Invalid JWT", request)
      [] h = 7 -> _forbidden("Invalid auth header", request)
      [] OTHER -> _unauthorized("Unexpected error", request)

\* the response each except clause of dispatch returns
HandlerResponse(h, request) ==
    CASE h = 1 -> _service_unavailable("Unable to fetch JWKS", request)
      [] h = 2 -> _unauthorized("Invalid JWKS format", request)
      [] h = 3 -> _unauthorized("Invalid JWKS configuration", request)
      [] h = 4 -> _unauthorized("Expired JWT", request)
      [] h = 5 -> _unauthorized("Invalid JWT", request)
      [] h = 6 -> _unauthorized("Invalid JWT", request)
      [] h = 7 -> _unauthorized("Invalid auth header", request)
      [] OTHER -> _unauthorized("Unexpected error", request)

\* mutant: the bypass test without the NoAuth strategy
Bypass_PublicOnly(self, request) == request.path \in self.public_paths

\* the bypass test of dispatch
Bypass(self, request) ==
    request.path \in self.public_paths \/ self.credential_service = "NoAuth"

\* payload.get("scope", "").split(): only a str has split()
Scopes(payload) ==
    CASE payload.scope.kind = "absent" -> Ret(SplitWs(""))
      [] payload.scope.kind = "str" -> Ret(SplitWs(payload.scope.v))
      [] OTHER -> Raise("AttributeError")

\* mutant: a claim counts as present when some scope contains it as a substring
MissingClaims_Substring(required_claims, scopes) ==
    SelectSeq(required_claims, LAMBDA c : ~\E x \in Range(scopes) : Contains(x, c))

\* [claim for claim in required_claims if claim not in scopes]
MissingClaims(required_claims, scopes) == SelectNotIn(required_claims, Range(scopes))

\* the claim check that follows the try block
CheckClaims(self, payload, request) ==
    LET scopes == Scopes(payload)
        missing_claims == MissingClaims(self.required_claims, scopes.val)
    IN IF scopes.raised THEN RaiseOut(scopes.exc)
       ELSE IF ~self.has_required_claims THEN RaiseOut("KeyError")
       ELSE IF Len(missing_claims) > 0
       THEN _forbidden("Missing required claims: " \o ReprList(missing_claims), request)
       ELSE NextOut

NotRun == Raise("")

\* one run of dispatch: the calls made in order, what each returned, and the outcome
Dispatch(self, request, env) ==
    IF Bypass(self, request)
    THEN [calls |-> <<"call_next">>, keys |-> NotRun, token |-> NotRun, payload |-> NotRun,
          out |-> NextOut]
    ELSE
      LET keys == get_keys(self.security_scheme, env)
          token == IF keys.raised THEN NotRun ELSE get_token(request)
          payload == IF keys.raised \/ token.raised THEN NotRun
                     ELSE validate_token(token.val, keys.val)
          exc == IF keys.raised THEN keys.exc
                 ELSE IF token.raised THEN token.exc ELSE payload.exc
          tried == <<"get_keys">> \o (IF keys.raised THEN <<>> ELSE <<"get_token">>)
                   \o (IF keys.raised \/ token.raised THEN <<>> ELSE <<"validate_token">>)
          out == IF keys.raised \/ token.raised \/ payload.raised
                 THEN HandlerResponse(FirstHandler(DispatchHandlers, exc, 1), request)
                 ELSE CheckClaims(self, payload.val, request)
          failed == keys.raised \/ token.raised \/ payload.raised
      IN [calls |-> tried \o (IF failed THEN <<>> ELSE <<"check_claims">>)
                    \o (IF out.kind = "next" THEN <<"call_next">> ELSE <<>>),
          keys |-> keys, token |-> token, payload |-> payload, out |-> out]

---------------------------------------------------------------------------
(* The inputs: agent cards, auth configurations, requests *)

SecurityValues ==
    { NoSecurity,
      SecurityList(<<>>),
      SecurityList(<<SchemeName("cognito")>>),
      SecurityList(<<SchemeName("ghost")>>),
      SecurityList(<<SchemeDict(<<Entry("cognito", <<"admin">>)>>)>>),
      SecurityList(<<SchemeDict(<<Entry("cognito", <<"read", "admin">>)>>)>>),
      SecurityList(<<SchemeDict(<<Entry("cognito", <<>>), Entry("ghost", <<"admin">>)>>)>>),
      SecurityList(<<SchemeDict(<<Entry("cognito", <<"read">>)>>),
                     SchemeDict(<<Entry("ghost", <<"admin">>)>>)>>),
      SecurityList(<<SchemeDict(<<Entry("ghost", <<"admin">>)>>)>>),
      SecurityList(<<SchemeDict(<<>>)>>),
      SecurityList(<<OtherReq>>) }

SchemeValues ==
    { NoSchemes, Schemes({}), Schemes({Scheme("cognito", FALSE)}),
      Schemes({Scheme("cognito", TRUE)}) }

Cards == {NoCard} \cup {Card(sec, sch) : sec \in SecurityValues, sch \in SchemeValues}

AuthValues == {NoAuthConfig, AuthConfig("noauth"), AuthConfig("cognito")}

PublicPath == "/.well-known/agent.json"
Paths == {PublicPath, "/"}
PublicPathSets == {{}, {PublicPath}}

AcceptValues == {"application/json", "text/event-stream", "text/html, text/event-stream;q=0.9"}

AuthorizationValues ==
    {"", "Basic abc", "Bearer", "bearer Tadmin", "Bearer ", "Bearer Bearer Tadmin"}
    \cup {"Bearer " \o t : t \in TokenStrings}

HeaderSets ==
    { [n \in {} |-> ""] }
    \cup {[n \in {"accept"} |-> a] : a \in AcceptValues}
    \cup {[n \in {"authorization"} |-> z] : z \in AuthorizationValues}
    \cup {[n \in {"accept", "authorization"} |-> IF n = "accept" THEN a ELSE z] :
            a \in AcceptValues, z \in AuthorizationValues}

Requests == {[path |-> p, headers |-> h] : p \in Paths, h \in HeaderSets}

---------------------------------------------------------------------------
(* The gateway as a state machine *)

Idle ==
    [busy |-> FALSE, request |-> [path |-> "", headers |-> [n \in {} |-> ""]],
     env |-> [k |-> "", exc |-> "", doc |-> [shape |-> "", keys |-> {}]],
     calls |-> <<>>, keys |-> NotRun, token |-> NotRun, payload |-> NotRun, out |-> RaiseOut("")]

GatewayInit ==
    /\ ctorArgs = [agent_card |-> NoCard, auth |-> NoAuthConfig, public_paths |-> {}]
    /\ ctor = "pending"
    /\ mw = NoMw
    /\ last = Idle

\* Middleware(app, agent_card, auth, public_paths): the object exists only when
\* __init__ returns
Construct ==
    /\ ctor = "pending"
    /\ \E agent_card \in Cards, auth \in AuthValues, public_paths \in PublicPathSets :
         LET r == MiddlewareInit(agent_card, auth, public_paths) IN
         /\ ctorArgs' = [agent_card |-> agent_card, auth |-> auth, public_paths |-> public_paths]
         /\ ctor' = IF r.raised THEN r.exc ELSE "ok"
         /\ mw' = IF r.raised THEN NoMw ELSE r.val
    /\ UNCHANGED <<last, notGateway>>

\* one request served by the constructed gateway
DispatchRequest ==
    /\ ctor = "ok"
    /\ ~last.busy
    /\ \E request \in Requests, env \in JwksEnv :
         LET d == Dispatch(mw, request, env) IN
         last' = [busy |-> TRUE, request |-> request, env |-> env, calls |-> d.calls,
                  keys |-> d.keys, token |-> d.token, payload |-> d.payload, out |-> d.out]
    /\ UNCHANGED <<ctorArgs, ctor, mw, notGateway>>

\* the response (or the exception) has left the gateway
Deliver ==
    /\ last.busy
    /\ last' = Idle
    /\ UNCHANGED <<ctorArgs, ctor, mw, notGateway>>

GatewayNext == Construct \/ DispatchRequest \/ Deliver

---------------------------------------------------------------------------
(* The gateway serving concurrent requests on one event loop *)

MaxRequests == 2
Serving == 1..MaxRequests

\* the requests and JWKS answers the concurrent runs are served with
ServingRequests ==
    {[path |-> PublicPath, headers |-> [n \in {} |-> ""]],
     [path |-> "/", headers |-> [n \in {"authorization"} |-> "Bearer Tadmin"]],
     [path |-> "/", headers |-> [n \in {"authorization"} |-> "Bearer Tread"]]}
ServingEnv ==
    {[k |-> "raise", exc |-> "Timeout", doc |-> [shape |-> "keys", keys |-> {}]],
     [k |-> "json", exc |-> "", doc |-> [shape |-> "keys", keys |-> {[kid |-> "k1", mat |-> "m1"]}]]}

NotServed == [pc |-> "idle", request |-> Idle.request, env |-> Idle.env, out |-> RaiseOut("")]

ServingInit ==
    /\ served = [r \in Serving |-> NotServed]
    /\ loop = 0

\* dispatch of request r starts: the bypass test, then either the await of
\* call_next or the call of get_keys, whose requests.get does not return
\* to the event loop before the JWKS endpoint has answered
ServeEnter(r) ==
    /\ ctor = "ok"
    /\ loop = 0
    /\ served[r].pc \in {"idle", "done"}
    /\ \E request \in ServingRequests, env \in ServingEnv :
         IF Bypass(mw, request)
         THEN /\ served' = [served EXCEPT ![r] = [pc |-> "call_next", request |-> request,
                                                  env |-> env, out |-> NextOut]]
              /\ UNCHANGED loop
         ELSE /\ served' = [served EXCEPT ![r] = [pc |-> "get_keys", request |-> request,
                                                  env |-> env, out |-> RaiseOut("")]]
              /\ loop' = r
    /\ UNCHANGED <<ctorArgs, ctor, mw, notServing>>

\* requests.get returns or raises: the rest of dispatch up to its return
\* or to the await of call_next runs without a suspension point
ServeKeys(r) ==
    /\ loop = r
    /\ served[r].pc = "get_keys"
    /\ LET d == Dispatch(mw, served[r].request, served[r].env) IN
       served' = [served EXCEPT ![r].pc = IF d.out.kind = "next" THEN "call_next" ELSE "done",
                                ![r].out = d.out]
    /\ loop' = 0
    /\ UNCHANGED <<ctorArgs, ctor, mw, notServing>>

\* the downstream handler has answered: dispatch returns its response
ServeCallNext(r) ==
    /\ loop = 0
    /\ served[r].pc = "call_next"
    /\ served' = [served EXCEPT ![r].pc = "done"]
    /\ UNCHANGED <<ctorArgs, ctor, mw, loop, notServing>>

ServeStep(r) == ServeEnter(r) \/ ServeKeys(r) \/ ServeCallNext(r)

ServingNext == Construct \/ \E r \in Serving : ServeStep(r)

---------------------------------------------------------------------------
(* CognitoM2MCredentialService: the cached access token *)

MaxTime == 6
MaxGrants == 3
Skew == 60
DefaultExpiresIn == 3600

\* expires_in values the token endpoint answers with
ExpiresInValues == {59, 61, 62, 63}

\* the token endpoint's answers to one client-credentials POST: a transport or
\* status error, a body that is not JSON or lacks access_token, or a token with
\* expires_in a number, absent, or not a number
GrantFailures == {"ConnectError", "HTTPStatusError", "JSONDecodeError", "KeyError"}

GrantResponses ==
    {[ok |-> FALSE, exc |-> e, empty |-> FALSE, expires |-> "absent", expires_in |-> 0] :
        e \in GrantFailures}
    \cup {[ok |-> TRUE, exc |-> "", empty |-> b, expires |-> "number", expires_in |-> x] :
            b \in BOOLEAN, x \in ExpiresInValues}
    \cup {[ok |-> TRUE, exc |-> "", empty |-> FALSE, expires |-> k, expires_in |-> 0] :
            k \in {"absent", "string"}}

\* the access_token of the n-th grant
IssuedToken(resp, n) == IF resp.empty THEN "" ELSE "t" \o ToString(n)

\* `not self._access_token`: None and "" are falsy
Falsy(tok) == ~tok.some \/ tok.v = ""

NoHeld == [defined |-> FALSE, token |-> "", fetched |-> 0, expires_in |-> 0]

\* _fetch_token at time t: the fields after it and the exception it ends with
_fetch_token(tok, exp, resp, n, t) ==
    IF ~resp.ok THEN [exc |-> resp.exc, token |-> tok, expires_at |-> exp, held |-> NoHeld,
                      stored |-> FALSE]
    ELSE IF resp.expires = "string"
    THEN [exc |-> "TypeError", token |-> Some(IssuedToken(resp, n)), expires_at |-> exp,
          held |-> NoHeld, stored |-> TRUE]
    ELSE LET expires_in == IF resp.expires = "absent" THEN DefaultExpiresIn ELSE resp.expires_in
         IN [exc |-> "", token |-> Some(IssuedToken(resp, n)),
             expires_at |-> t + expires_in - Skew,
             held |-> [defined |-> TRUE, token |-> IssuedToken(resp, n), fetched |-> t,
                       expires_in |-> expires_in],
             stored |-> TRUE]

\* mutant: the expiry test with >= in place of >
NeedsFetch_AtOrAfter(tok, exp, t) == Falsy(tok) \/ t >= exp

\* the test of get_credentials that decides on a new grant
NeedsFetch(tok, exp, t) == Falsy(tok) \/ t > exp

NoCall ==
    [made |-> FALSE, t |-> 0, token_before |-> NoneVal, held_before |-> NoHeld,
     posts |-> 0, issued |-> "", result |-> NotRun]

CacheInit ==
    /\ now = 1
    /\ _access_token = NoneVal
    /\ _expires_at = 0
    /\ held = NoHeld
    /\ grants = 0
    /\ call = NoCall

Tick ==
    /\ now < MaxTime
    /\ now' = now + 1
    /\ UNCHANGED <<_access_token, _expires_at, held, grants, call, notCache>>

\* get_credentials served from the cache
GetCredentialsCached ==
    /\ ~NeedsFetch(_access_token, _expires_at, now)
    /\ call' = [made |-> TRUE, t |-> now, token_before |-> _access_token, held_before |-> held,
                posts |-> 0, issued |-> "", result |-> Ret(_access_token)]
    /\ UNCHANGED <<now, _access_token, _expires_at, held, grants, notCache>>

\* get_credentials that awaits _fetch_token and returns the field afterwards
GetCredentialsFetch ==
    /\ NeedsFetch(_access_token, _expires_at, now)
    /\ grants < MaxGrants
    /\ \E resp \in GrantResponses :
         LET f == _fetch_token(_access_token, _expires_at, resp, grants + 1, now) IN
         /\ _access_token' = f.token
         /\ _expires_at' = f.expires_at
         /\ held' = IF f.stored THEN f.held ELSE held
         /\ grants' = grants + 1
         /\ call' = [made |-> TRUE, t |-> now, token_before |-> _access_token,
                     held_before |-> held, posts |-> 1,
                     issued |-> IF resp.ok THEN IssuedToken(resp, grants + 1) ELSE "",
                     result |-> IF f.exc # "" THEN Raise(f.exc) ELSE Ret(f.token)]
    /\ UNCHANGED <<now, notCache>>

CacheNext == Tick \/ GetCredentialsCached \/ GetCredentialsFetch

---------------------------------------------------------------------------
(* CognitoM2MCredentialService: concurrent get_credentials calls on one *)
(* instance, stepped at the awaits of _fetch_token                      *)

MaxCallers == 2
Callers == 1..MaxCallers

NoCaller == [pc |-> "idle", issued |-> "", result |-> NotRun]

RaceInit == callers = [k \in Callers |-> NoCaller]

\* get_credentials up to its first await: the cached token at once, or the
\* POST of _fetch_token is sent
CredentialsEnter(k) ==
    /\ callers[k].pc \in {"idle", "done"}
    /\ callers' = [callers EXCEPT ![k] =
                     IF NeedsFetch(_access_token, _expires_at, now)
                     THEN [NoCaller EXCEPT !.pc = "post"]
                     ELSE [NoCaller EXCEPT !.pc = "done", !.result = Ret(_access_token)]]
    /\ UNCHANGED <<now, _access_token, _expires_at, held, grants, notRace>>

\* the token endpoint answers the POST of caller k: raise_for_status, json()
\* and the two assignments run without an await between them; then the
\* `async with` closes the client
CredentialsResponse(k) ==
    /\ callers[k].pc = "post"
    /\ grants < MaxGrants
    /\ \E resp \in GrantResponses :
         LET f == _fetch_token(_access_token, _expires_at, resp, grants + 1, now) IN
         /\ _access_token' = f.token
         /\ _expires_at' = f.expires_at
         /\ held' = IF f.stored THEN f.held ELSE held
         /\ grants' = grants + 1
         /\ callers' = [callers EXCEPT
                          ![k].pc = IF f.exc # "" THEN "done" ELSE "close",
                          ![k].issued = IF resp.ok THEN IssuedToken(resp, grants + 1) ELSE "",
                          ![k].result = IF f.exc # "" THEN Raise(f.exc) ELSE NotRun]
    /\ UNCHANGED <<now, notRace>>

\* _fetch_token has returned: get_credentials returns the field as it is now
CredentialsReturn(k) ==
    /\ callers[k].pc = "close"
    /\ callers' = [callers EXCEPT ![k].pc = "done", ![k].result = Ret(_access_token)]
    /\ UNCHANGED <<now, _access_token, _expires_at, held, grants, notRace>>

RaceTick ==
    /\ now < MaxTime
    /\ now' = now + 1
    /\ UNCHANGED <<_access_token, _expires_at, held, grants, callers, notRace>>

RaceNext ==
    \/ RaceTick
    \/ \E k \in Callers : CredentialsEnter(k)
    \/ \E k \in Callers : CredentialsResponse(k)
    \/ \E k \in Callers : CredentialsReturn(k)

---------------------------------------------------------------------------
(* HeadersPropagationInterceptor (a2a/interceptors/headers_propagation_interceptor.py) *)

\* str.lower over the ASCII letters
UpperLetters == "ABCDEFGHIJKLMNOPQRSTUVWXYZ"
LowerLetters == "abcdefghijklmnopqrstuvwxyz"
LowerMap ==
    [c \in {SubSeq(UpperLetters, i, i) : i \in 1..Len(UpperLetters)} |->
        LET i == CHOOSE j \in 1..Len(UpperLetters) : SubSeq(UpperLetters, j, j) = c
        IN SubSeq(LowerLetters, i, i)]
LowerChar(c) == IF c \in DOMAIN LowerMap THEN LowerMap[c] ELSE c
RECURSIVE LowerFrom(_, _)
LowerFrom(s, i) ==
    IF i > Len(s) THEN "" ELSE LowerChar(SubSeq(s, i, i)) \o LowerFrom(s, i + 1)
Lower(s) == LowerFrom(s, 1)

\* a Python value held by a dict: its type and, for str/bytes, its text
PyVal(kind, v) == [kind |-> kind, v |-> v]
EmptyDict == [n \in {} |-> PyVal("str", "")]

\* an argument that may be None (the `x or default` idiom reads its truthiness)
NoArg == [given |-> FALSE, items |-> <<>>]
Arg(items) == [given |-> TRUE, items |-> items]
OrDefault(arg, default) == IF arg.given /\ Len(arg.items) > 0 THEN arg.items ELSE default

NoHpi == [made |-> FALSE, allowed_prefixes |-> <<>>, allowed_names |-> {},
          allow_authorization |-> FALSE, _blocked |-> {}]

\* __init__: prefixes and names are lower-cased, an empty or missing argument
\* gets the default, and the blocked set grows unless allow_authorization
HpiInit(allowed_prefixes, allowed_names, allow_authorization) ==
    LET prefixes == OrDefault(allowed_prefixes, <<"x-mapfre-">>)
        names == OrDefault(allowed_names, <<"x-request-id", "x-correlation-id", "accept-language">>)
        hop == {"connection", "keep-alive", "transfer-encoding", "te", "trailer",
                "upgrade", "host", "content-length"}
    IN [made |-> TRUE,
        allowed_prefixes |-> [i \in 1..Len(prefixes) |-> Lower(prefixes[i])],
        allowed_names |-> {Lower(names[i]) : i \in 1..Len(names)},
        allow_authorization |-> allow_authorization,
        _blocked |-> IF allow_authorization THEN hop ELSE hop \cup {"authorization", "cookie"}]

\* mutant: the allowlist is looked up before the blocked set
_is_allowed_AllowlistFirst(self, name) ==
    LET lower == Lower(name) IN
    IF lower \in self.allowed_names THEN TRUE
    ELSE IF lower \in self._blocked THEN FALSE
    ELSE \E i \in 1..Len(self.allowed_prefixes) : StartsWith(lower, self.allowed_prefixes[i])

_is_allowed(self, name) ==
    LET lower == Lower(name) IN
    IF lower \in self._blocked THEN FALSE
    ELSE IF lower \in self.allowed_names THEN TRUE
    ELSE \E i \in 1..Len(self.allowed_prefixes) : StartsWith(lower, self.allowed_prefixes[i])

\* a ClientCallContext: None, or a state dict whose entries are dicts of
\* headers or values of another type
NoContext == [some |-> FALSE, state |-> [n \in {} |-> [isdict |-> FALSE, d |-> EmptyDict]]]
Context(state) == [some |-> TRUE, state |-> state]
DictEntry(d) == [isdict |-> TRUE, d |-> d]
OtherEntry == [isdict |-> FALSE, d |-> EmptyDict]

\* http_kwargs: the headers dict when the key is there
NoHeaders == [has_headers |-> FALSE, headers |-> EmptyDict]
Headers(d) == [has_headers |-> TRUE, headers |-> d]

\* intercept(): returns (request_payload, http_kwargs)
intercept(self, request_payload, http_kwargs, context) ==
    LET untouched == [request_payload |-> request_payload, http_kwargs |-> http_kwargs, added |-> {}]
    IN
    IF ~context.some \/ DOMAIN context.state = {} THEN untouched
    ELSE
    LET isd == "propagation_headers" \in DOMAIN context.state
                 /\ context.state["propagation_headers"].isdict
        candidate_headers == IF isd THEN context.state["propagation_headers"].d ELSE EmptyDict
    IN
    IF DOMAIN candidate_headers = {} THEN untouched
    ELSE
    LET headers == http_kwargs.headers     \* setdefault("headers", {})
        added == {k \in DOMAIN candidate_headers :
                    candidate_headers[k].kind \in {"str", "bytes"} /\ _is_allowed(self, k)}
        out == [k \in DOMAIN headers \cup added |->
                    IF k \in added THEN candidate_headers[k] ELSE headers[k]]
    IN [request_payload |-> request_payload, http_kwargs |-> Headers(out), added |-> added]

\* inputs: constructor arguments, contexts and outbound request kwargs
PrefixArgs == {NoArg, Arg(<<>>), Arg(<<"X-Trace-">>), Arg(<<"">>), Arg(<<"auth", "co">>)}
NameArgs == {NoArg, Arg(<<>>), Arg(<<"Authorization", "Content-Type">>), Arg(<<"host", "cookie">>)}

MaxHeaders == 2
PropagationNames == {"x-mapfre-trace-id", "X-Mapfre-User", "authorization", "Cookie", "Host",
                     "x-request-id", "content-type", "X-Trace-1"}
ValueKinds == {"str", "bytes", "int"}
HeaderValue(name, kind) ==
    PyVal(kind, IF kind = "int" THEN "" ELSE IF name = "authorization" THEN "secret" ELSE "abc")
HeaderDicts ==
    UNION {{[n \in S |-> HeaderValue(n, kinds[n])] : kinds \in [S -> ValueKinds]} :
             S \in {T \in SUBSET PropagationNames : Cardinality(T) <= MaxHeaders}}
InboundHeaders == [n \in {"x-mapfre-user-id"} |-> PyVal("str", "u1")]
StateOf(ph, withInbound) ==
    [n \in {"propagation_headers"} \cup (IF withInbound THEN {"headers"} ELSE {}) |->
        IF n = "propagation_headers" THEN ph ELSE DictEntry(InboundHeaders)]
Contexts ==
    {NoContext, Context([n \in {} |-> OtherEntry]),
     Context([n \in {"headers"} |-> DictEntry(InboundHeaders)])}
    \cup {Context(StateOf(ph, b)) :
            ph \in {OtherEntry} \cup {DictEntry(d) : d \in HeaderDicts}, b \in BOOLEAN}
HttpKwargs ==
    {NoHeaders, Headers([n \in {"x-mapfre-trace-id", "content-type"} |-> PyVal("str", "old")])}

NoIcall == [busy |-> FALSE, context |-> NoContext, http_kwargs |-> NoHeaders,
            out |-> [request_payload |-> "", http_kwargs |-> NoHeaders, added |-> {}]]

InterceptorInit ==
    /\ hpi = NoHpi
    /\ icall = NoIcall

\* HeadersPropagationInterceptor(...)
HpiConstruct ==
    /\ ~hpi.made
    /\ \E allowed_prefixes \in PrefixArgs, allowed_names \in NameArgs,
          allow_authorization \in BOOLEAN :
         hpi' = HpiInit(allowed_prefixes, allowed_names, allow_authorization)
    /\ UNCHANGED <<icall, notInterceptor>>

\* one outbound call passes through the interceptor
InterceptCall ==
    /\ hpi.made
    /\ ~icall.busy
    /\ \E context \in Contexts, http_kwargs \in HttpKwargs :
         icall' = [busy |-> TRUE, context |-> context, http_kwargs |-> http_kwargs,
                   out |-> intercept(hpi, "payload", http_kwargs, context)]
    /\ UNCHANGED <<hpi, notInterceptor>>

\* the request leaves; the interceptor keeps no per-call state
InterceptReturn ==
    /\ icall.busy
    /\ icall' = NoIcall
    /\ UNCHANGED <<hpi, notInterceptor>>

InterceptorNext == HpiConstruct \/ InterceptCall \/ InterceptReturn

---------------------------------------------------------------------------
(* The interceptors of a RemoteAgentConnections: SessionInterceptor         *)
(* (a2a/interceptors/session_interceptor.py), then the AuthInterceptor when *)
(* the connection has an auth strategy (a2a/client/remote_agent_connector.py) *)

\* one item of context.state: a key with a str, a bytes, a dict of headers
\* or a value of another type; the state keeps its items in insertion order
StateItem(key, kind, v, d) == [key |-> key, kind |-> kind, v |-> v, d |-> d]

\* headers[k] = v on a headers dict
SetHeader(headers, k, v) ==
    [n \in DOMAIN headers \cup {k} |-> IF n = k THEN v ELSE headers[n]]

\* variant: a value that finds the header there is appended to it
FlattenInto_Appends(headers, value) ==
    [n \in DOMAIN headers \cup {k \in DOMAIN value : value[k].kind \in {"str", "bytes"}} |->
        IF n \in DOMAIN value /\ value[n].kind \in {"str", "bytes"}
        THEN (IF n \in DOMAIN headers THEN PyVal(value[n].kind, headers[n].v \o value[n].v)
              ELSE value[n])
        ELSE headers[n]]
\* the inner loop of intercept: every str/bytes entry of the nested
\* propagation_headers dict becomes a header
FlattenInto(headers, value) ==
    [n \in DOMAIN headers \cup {k \in DOMAIN value : value[k].kind \in {"str", "bytes"}} |->
        IF n \in DOMAIN value /\ value[n].kind \in {"str", "bytes"} THEN value[n]
        ELSE headers[n]]

\* the loop of intercept over context.state.items(), from item i on
RECURSIVE SessionLoop(_, _, _)
SessionLoop(headers, state, i) ==
    IF i > Len(state) THEN headers
    ELSE LET item == state[i]
             next == IF item.key = "propagation_headers" /\ item.kind = "dict"
                     THEN FlattenInto(headers, item.d)
                     ELSE IF item.kind \in {"str", "bytes"}
                     THEN SetHeader(headers, item.key, PyVal(item.kind, item.v))
                     ELSE headers
         IN SessionLoop(next, state, i + 1)

\* SessionInterceptor.intercept: returns (request_payload, http_kwargs)
SessionIntercept(request_payload, http_kwargs, context) ==
    IF ~context.some \/ Len(context.state) = 0
    THEN [request_payload |-> request_payload, http_kwargs |-> http_kwargs]
    ELSE [request_payload |-> request_payload,
          http_kwargs |-> Headers(SessionLoop(http_kwargs.headers, context.state, 1))]

\* AuthInterceptor(credential_service).intercept of the A2A client library:
\* a credential that is not empty goes out as the bearer Authorization header
AuthIntercept(request_payload, http_kwargs, credential) ==
    IF credential = ""
    THEN [request_payload |-> request_payload, http_kwargs |-> http_kwargs]
    ELSE [request_payload |-> request_payload,
          http_kwargs |-> Headers(SetHeader(http_kwargs.headers, "Authorization",
                                            PyVal("str", "Bearer " \o credential)))]

\* RemoteAgentConnections.__init__: the interceptor list of the connection
Interceptors(auth_config) ==
    IF auth_config.type # "noauth" /\ auth_config.security
    THEN <<"SessionInterceptor", "AuthInterceptor">>
    ELSE <<"SessionInterceptor">>

\* the client applies the interceptors in list order, from interceptor i on
RECURSIVE ApplyInterceptors(_, _, _, _, _, _)
ApplyInterceptors(interceptors, i, request_payload, http_kwargs, context, credential) ==
    IF i > Len(interceptors)
    THEN [request_payload |-> request_payload, http_kwargs |-> http_kwargs]
    ELSE LET r == IF interceptors[i] = "SessionInterceptor"
                  THEN SessionIntercept(request_payload, http_kwargs, context)
                  ELSE AuthIntercept(request_payload, http_kwargs, credential)
         IN ApplyInterceptors(interceptors, i + 1, r.request_payload, r.http_kwargs, context,
                              credential)

\* inputs: auth configurations, credentials, contexts, transport options
ChainAuthConfigs ==
    {[type |-> "noauth", security |-> FALSE], [type |-> "cognito", security |-> FALSE],
     [type |-> "cognito", security |-> TRUE]}
Credentials == {"", "tok1"}
MaxStateItems == 2
NestedDicts ==
    {[n \in {"x-mapfre-trace-id"} |-> PyVal("str", "nested")],
     [n \in {"Authorization", "x-count"} |->
        IF n = "Authorization" THEN PyVal("str", "inbound") ELSE PyVal("int", "")]}
StateItems ==
    {StateItem("propagation_headers", "dict", "", d) : d \in NestedDicts}
    \cup {StateItem("propagation_headers", "str", "flat", EmptyDict),
          StateItem("x-mapfre-trace-id", "str", "top", EmptyDict),
          StateItem("Authorization", "str", "state", EmptyDict),
          StateItem("x-blob", "bytes", "raw", EmptyDict),
          StateItem("task_id", "int", "", EmptyDict),
          StateItem("headers", "dict", "", [n \in {"x-other"} |-> PyVal("str", "other")])}
States ==
    UNION {{q \in [1..n -> StateItems] : \A i, j \in 1..n : i # j => q[i].key # q[j].key} :
             n \in 0..MaxStateItems}
NoCallContext == [some |-> FALSE, state |-> <<>>]
CallContexts == {NoCallContext} \cup {[some |-> TRUE, state |-> q] : q \in States}
ChainHttpKwargs ==
    {NoHeaders,
     Headers([n \in {"x-mapfre-trace-id", "content-type"} |-> PyVal("str", "old")]),
     Headers([n \in {"Authorization"} |-> PyVal("str", "preset")])}

NoResult == [request_payload |-> "", http_kwargs |-> NoHeaders]
NoChain ==
    [pc |-> "idle", interceptors |-> <<>>, credential |-> "", context |-> NoCallContext,
     http_kwargs |-> NoHeaders, once |-> NoResult, twice |-> NoResult]

ChainInit == chain = NoChain

\* a connection is built and one call passes through its interceptors
ChainApply ==
    /\ chain.pc \in {"idle", "twice"}
    /\ \E auth_config \in ChainAuthConfigs, credential \in Credentials,
          context \in CallContexts, http_kwargs \in ChainHttpKwargs :
         LET interceptors == Interceptors(auth_config) IN
         chain' = [NoChain EXCEPT
                     !.pc = "once",
                     !.interceptors = interceptors,
                     !.credential = credential,
                     !.context = context,
                     !.http_kwargs = http_kwargs,
                     !.once = ApplyInterceptors(interceptors, 1, "payload", http_kwargs,
                                                context, credential)]
    /\ UNCHANGED notChain

\* the same interceptors run again on the same context and on the options
\* the first run returned
ChainReapply ==
    /\ chain.pc = "once"
    /\ chain' = [chain EXCEPT
                   !.pc = "twice",
                   !.twice = ApplyInterceptors(chain.interceptors, 1, chain.once.request_payload,
                                               chain.once.http_kwargs, chain.context,
                                               chain.credential)]
    /\ UNCHANGED notChain

ChainNext == ChainApply \/ ChainReapply

---------------------------------------------------------------------------
(* Task executors (a2a/executors): TaskUpdater, payload, the two event loops *)

MaxCalls == 2
MaxEvents == 2
Calls == 1..MaxCalls

\* events on the EventQueue
StatusEvent(state, final, message) ==
    [type |-> "status", state |-> state, final |-> final, message |-> message]
ArtifactEvent == [type |-> "artifact", state |-> "", final |-> FALSE, message |-> TRUE]

\* a TaskUpdater: its queue and its terminal flag
Updater(queue, reached) == [queue |-> queue, reached |-> reached]
TerminalStates == {"completed", "canceled", "failed", "rejected"}

\* TaskUpdater.update_status: a build with the terminal guard raises once a
\* terminal state went out; a terminal state is always sent as final
update_status(u, state, final, message, terminal_guard) ==
    IF terminal_guard /\ u.reached
    THEN [exc |-> "RuntimeError", u |-> u]
    ELSE [exc |-> "",
          u |-> Updater(Append(u.queue, StatusEvent(state, final \/ state \in TerminalStates, message)),
                        u.reached \/ state \in TerminalStates)]

\* TaskUpdater.add_artifact
add_artifact(u) == Updater(Append(u.queue, ArtifactEvent), u.reached)

\* a RequestContext: the task it continues (or none), its message, its
\* context id and the session header of its call context
RequestContext(current_task, message, context_id, session_header) ==
    [current_task |-> current_task, message |-> message, context_id |-> context_id,
     session_header |-> session_header]

\* the session id a context resolves to (header override, else context id)
SessionIdOf(context) ==
    IF context.session_header.some THEN context.session_header.v ELSE context.context_id

\* generate_payload: ValueError for no message or a part that is not text
generate_payload(context) ==
    IF context.message = "none" THEN Raise("ValueError")
    ELSE IF context.message = "file" THEN Raise("ValueError")
    ELSE Ret(Some(SessionIdOf(context)))

\* outcome of one pass of a loop body: the updater after it, whether the loop
\* goes on, and the exception the body raised
Pass(u, goes_on, exc) == [u |-> u, goes_on |-> goes_on, exc |-> exc]

\* ADK runner events: final or not, with function calls or not, and content
\* that is None, text parts, parts with nothing in them, or a file_data part
AdkEvent(final, calls, content) == [final |-> final, calls |-> calls, content |-> content]

\* body of the `async for` of ADKAgentA2AExecutor._process_request
AdkBody(u, event, terminal_guard) ==
    IF event.final THEN
        IF event.content = "file_data" THEN Pass(u, FALSE, "ValueError")
        ELSE LET a == add_artifact(u)
                 c == update_status(a, "completed", TRUE, FALSE, terminal_guard)
             IN Pass(c.u, FALSE, c.exc)
    ELSE IF ~event.calls THEN
        LET w == update_status(u, "working", FALSE, TRUE, terminal_guard)
        IN Pass(w.u, w.exc = "", w.exc)
    ELSE Pass(u, TRUE, "")

\* LangChain stream items: the two flags and the content (default "")
Item(is_task_complete, require_user_input, content) ==
    [is_task_complete |-> is_task_complete, require_user_input |-> require_user_input,
     content |-> content]

\* body of the `async for` of LangChainAgentA2AExecutor._process_request;
\* convert_genai_part_to_a2a raises ValueError for a part with empty text
LangChainBody(u, item, terminal_guard) ==
    IF item.require_user_input THEN
        IF item.content = "" THEN Pass(u, FALSE, "ValueError")
        ELSE LET r == update_status(u, "input-required", TRUE, TRUE, terminal_guard)
             IN Pass(r.u, r.exc = "", r.exc)
    ELSE IF item.is_task_complete THEN
        IF item.content = "" THEN Pass(u, FALSE, "ValueError")
        ELSE LET a == add_artifact(u)
                 c == update_status(a, "completed", TRUE, FALSE, terminal_guard)
             IN Pass(c.u, c.exc = "", c.exc)
    ELSE Pass(u, TRUE, "")

\* how an exception leaves _process_request: [u, exc, error]
Leaves(u, exc, error) == [u |-> u, exc |-> exc, error |-> error]

\* ADK: try/finally only, the exception goes on as it is
AdkExcept(u, exc, terminal_guard) == Leaves(u, exc, "")

\* LangChain: `except Exception` sends Failed, then raises ServerError(InternalError);
\* an exception of update_status inside the handler leaves instead
LangChainExcept(u, exc, terminal_guard) ==
    IF "Exception" \in Ancestors(exc)
    THEN LET f == update_status(u, "failed", TRUE, TRUE, terminal_guard)
         IN IF f.exc # "" THEN Leaves(f.u, f.exc, "")
            ELSE Leaves(f.u, "ServerError", "InternalError")
    ELSE Leaves(u, exc, "")

\* inputs: request contexts, runner events, stream items
ContextId(c) == "ctx" \o ToString(c)
Messages == {"text", "empty", "none", "file"}
SessionHeaders == {NoneVal, Some("s1")}
RequestContexts(c) ==
    {RequestContext(t, m, ContextId(c), h) : t \in BOOLEAN, m \in Messages, h \in SessionHeaders}
CancelContexts ==
    {RequestContext(TRUE, "text", id, h) :
        id \in {ContextId(c) : c \in Calls}, h \in SessionHeaders}
AdkEvents ==
    {AdkEvent(TRUE, FALSE, "text"), AdkEvent(TRUE, FALSE, "none"), AdkEvent(TRUE, FALSE, "file_data"),
     AdkEvent(FALSE, FALSE, "text"), AdkEvent(FALSE, FALSE, "none"), AdkEvent(FALSE, TRUE, "none")}
Items == {Item(c, r, t) : c \in BOOLEAN, r \in BOOLEAN, t \in {"", "x"}}

NoExecutor == [made |-> FALSE, adapter |-> "", terminal_guard |-> FALSE]
NoExec ==
    [pc |-> "idle", context |-> RequestContext(FALSE, "none", "", NoneVal), session_id |-> "",
     consumed |-> 0, reached |-> FALSE, exc |-> "", error |-> ""]
NoCancel ==
    [busy |-> FALSE, context |-> RequestContext(FALSE, "none", "", NoneVal), was_active |-> FALSE,
     exc |-> "", error |-> ""]

ExecutorInit ==
    /\ executor = NoExecutor
    /\ _active_sessions = {}
    /\ exec = [c \in Calls |-> NoExec]
    /\ event_queue = [c \in Calls |-> <<>>]
    /\ cancelCall = NoCancel

IsAdk == executor.adapter = "adk"
InFlight(c) == exec[c].pc \notin {"idle", "done"}
UpdaterOf(c) == Updater(event_queue[c], exec[c].reached)

\* ADKAgentA2AExecutor(runner, card) / LangChainAgentA2AExecutor(agent_executor, card)
ExecutorConstruct ==
    /\ ~executor.made
    /\ \E adapter \in {"adk", "langchain"}, terminal_guard \in BOOLEAN :
         executor' = [made |-> TRUE, adapter |-> adapter, terminal_guard |-> terminal_guard]
    /\ UNCHANGED <<_active_sessions, exec, event_queue, cancelCall, notExecutor>>

\* mutant: Submitted whatever the context holds
Submits_Always(context) == TRUE

\* `if not context.current_task`
Submits(context) == ~context.current_task

\* execute() up to its first await: Submitted unless the context has a task
ExecuteBegin(c) ==
    /\ executor.made /\ ~cancelCall.busy
    /\ exec[c].pc = "idle"
    /\ \E context \in RequestContexts(c) :
         LET u0 == Updater(<<>>, FALSE)
             u1 == IF Submits(context)
                   THEN update_status(u0, "submitted", FALSE, FALSE, executor.terminal_guard).u
                   ELSE u0
         IN /\ exec' = [exec EXCEPT ![c] = [NoExec EXCEPT !.pc = "entered", !.context = context,
                                                          !.reached = u1.reached]]
            /\ event_queue' = [event_queue EXCEPT ![c] = u1.queue]
    /\ UNCHANGED <<executor, _active_sessions, cancelCall, notExecutor>>

\* mutant: the discard after the loop instead of in a finally
Finish_DiscardOnReturnOnly(c, u, exc, error, in_loop) ==
    /\ exec' = [exec EXCEPT ![c].pc = "done", ![c].reached = u.reached,
                            ![c].exc = exc, ![c].error = error]
    /\ event_queue' = [event_queue EXCEPT ![c] = u.queue]
    /\ _active_sessions' = IF IsAdk /\ in_loop /\ exc = ""
                           THEN _active_sessions \ {exec[c].session_id}
                           ELSE _active_sessions

\* the end of one execute() call: the finally of the ADK loop when the call
\* was inside it, the updater's queue, the exception that leaves
Finish(c, u, exc, error, in_loop) ==
    /\ exec' = [exec EXCEPT ![c].pc = "done", ![c].reached = u.reached,
                            ![c].exc = exc, ![c].error = error]
    /\ event_queue' = [event_queue EXCEPT ![c] = u.queue]
    /\ _active_sessions' = IF IsAdk /\ in_loop THEN _active_sessions \ {exec[c].session_id}
                           ELSE _active_sessions

\* how an exception raised inside the loop leaves execute()
ExceptOf(u, exc) ==
    IF IsAdk THEN AdkExcept(u, exc, executor.terminal_guard)
    ELSE LangChainExcept(u, exc, executor.terminal_guard)

\* Working, generate_payload, and _process_request up to its first await
ExecuteWorking(c) ==
    /\ ~cancelCall.busy
    /\ exec[c].pc = "entered"
    /\ LET w == update_status(UpdaterOf(c), "working", FALSE, FALSE, executor.terminal_guard).u
           payload == generate_payload(exec[c].context)
       IN IF payload.raised THEN Finish(c, w, payload.exc, "", FALSE)
          ELSE IF ~IsAdk /\ exec[c].context.message = "empty"
          THEN Finish(c, update_status(w, "failed", TRUE, TRUE, executor.terminal_guard).u,
                      "", "", FALSE)
          ELSE /\ exec' = [exec EXCEPT ![c].pc = IF IsAdk THEN "upsert" ELSE "stream",
                                       ![c].session_id = payload.val.v,
                                       ![c].reached = w.reached]
               /\ event_queue' = [event_queue EXCEPT ![c] = w.queue]
               /\ UNCHANGED _active_sessions
    /\ UNCHANGED <<executor, cancelCall, notExecutor>>

\* _upsert_session returns or raises; on return the session id is registered
UpsertSession(c) ==
    /\ ~cancelCall.busy
    /\ exec[c].pc = "upsert"
    /\ \E ok \in BOOLEAN :
         IF ok THEN /\ exec' = [exec EXCEPT ![c].pc = "stream"]
                    /\ _active_sessions' = _active_sessions \cup {exec[c].session_id}
                    /\ UNCHANGED event_queue
         ELSE Finish(c, UpdaterOf(c), "RuntimeError", "", FALSE)
    /\ UNCHANGED <<executor, cancelCall, notExecutor>>

\* the runtime yields one event and the loop body handles it
RuntimeEvent(c) ==
    /\ ~cancelCall.busy
    /\ exec[c].pc = "stream"
    /\ exec[c].consumed < MaxEvents
    /\ \E e \in IF IsAdk THEN AdkEvents ELSE Items :
         LET p == IF IsAdk THEN AdkBody(UpdaterOf(c), e, executor.terminal_guard)
                  ELSE LangChainBody(UpdaterOf(c), e, executor.terminal_guard)
         IN IF p.exc # "" THEN LET l == ExceptOf(p.u, p.exc) IN Finish(c, l.u, l.exc, l.error, TRUE)
            ELSE IF ~p.goes_on THEN Finish(c, p.u, "", "", TRUE)
            ELSE /\ exec' = [exec EXCEPT ![c].consumed = @ + 1, ![c].reached = p.u.reached]
                 /\ event_queue' = [event_queue EXCEPT ![c] = p.u.queue]
                 /\ UNCHANGED _active_sessions
    /\ UNCHANGED <<executor, cancelCall, notExecutor>>

\* the runtime raises while the loop waits for the next event
RuntimeRaises(c) ==
    /\ ~cancelCall.busy
    /\ exec[c].pc = "stream"
    /\ LET l == ExceptOf(UpdaterOf(c), "RuntimeError") IN Finish(c, l.u, l.exc, l.error, TRUE)
    /\ UNCHANGED <<executor, cancelCall, notExecutor>>

\* the runtime's stream ends and the loop is left normally
RuntimeEnds(c) ==
    /\ ~cancelCall.busy
    /\ exec[c].pc = "stream"
    /\ Finish(c, UpdaterOf(c), "", "", TRUE)
    /\ UNCHANGED <<executor, cancelCall, notExecutor>>

\* the task running execute() is cancelled at the await it is suspended in
TaskCancelled(c) ==
    /\ ~cancelCall.busy
    /\ exec[c].pc \in {"entered", "upsert", "stream"}
    /\ IF exec[c].pc = "stream"
       THEN LET l == ExceptOf(UpdaterOf(c), "CancelledError") IN Finish(c, l.u, l.exc, l.error, TRUE)
       ELSE Finish(c, UpdaterOf(c), "CancelledError", "", FALSE)
    /\ UNCHANGED <<executor, cancelCall, notExecutor>>

\* LangChainAgentA2AExecutor.cancel: raises, touches nothing
LangChainCancel(active, context) ==
    [active |-> active, exc |-> "ServerError", error |-> "UnsupportedOperationError"]

\* mutant: a cancel of an active session empties the whole set
AdkCancel_ClearsAll(active, context) ==
    [active |-> IF SessionIdOf(context) \in active THEN {} ELSE active,
     exc |-> "ServerError", error |-> "UnsupportedOperationError"]

\* ADKAgentA2AExecutor.cancel: prunes the resolved session id, then raises
AdkCancel(active, context) ==
    LET session_id ==
          IF context.session_header.some THEN context.session_header.v ELSE context.context_id
    IN [active |-> IF session_id \in active THEN active \ {session_id} ELSE active,
        exc |-> "ServerError", error |-> "UnsupportedOperationError"]

\* one cancel() call; it has no await, so it runs to its raise in one piece
Cancel ==
    /\ executor.made /\ ~cancelCall.busy
    /\ \E context \in CancelContexts :
         LET r == IF IsAdk THEN AdkCancel(_active_sessions, context)
                  ELSE LangChainCancel(_active_sessions, context)
         IN /\ _active_sessions' = r.active
            /\ cancelCall' = [busy |-> TRUE, context |-> context,
                              was_active |-> SessionIdOf(context) \in _active_sessions,
                              exc |-> r.exc, error |-> r.error]
    /\ UNCHANGED <<executor, exec, event_queue, notExecutor>>

\* the error of cancel() reaches its caller
CancelReturn ==
    /\ cancelCall.busy
    /\ cancelCall' = NoCancel
    /\ UNCHANGED <<executor, _active_sessions, exec, event_queue, notExecutor>>

ExecutorNext ==
    \/ ExecutorConstruct
    \/ \E c \in Calls : ExecuteBegin(c)
    \/ \E c \in Calls : ExecuteWorking(c)
    \/ \E c \in Calls : UpsertSession(c)
    \/ \E c \in Calls : RuntimeEvent(c)
    \/ \E c \in Calls : RuntimeRaises(c)
    \/ \E c \in Calls : RuntimeEnds(c)
    \/ \E c \in Calls : TaskCancelled(c)
    \/ Cancel
    \/ CancelReturn

\* execute() calls with no cancel() call beside them
ExecuteNext ==
    \/ ExecutorConstruct
    \/ \E c \in Calls : ExecuteBegin(c)
    \/ \E c \in Calls : ExecuteWorking(c)
    \/ \E c \in Calls : UpsertSession(c)
    \/ \E c \in Calls : RuntimeEvent(c)
    \/ \E c \in Calls : RuntimeRaises(c)
    \/ \E c \in Calls : RuntimeEnds(c)
    \/ \E c \in Calls : TaskCancelled(c)

---------------------------------------------------------------------------
(* One execute() call followed alone: the runtime events in the order it *)
(* consumed them, next to the queue they produced                        *)

MaxTurnEvents == 3

NoTurn ==
    [pc |-> "idle", context |-> RequestContext(FALSE, "none", "", NoneVal), events |-> <<>>,
     queue |-> <<>>, reached |-> FALSE, exc |-> "", error |-> ""]

TurnInit == turn = NoTurn

\* the end of the call
TurnDone(u, exc, error) ==
    [turn EXCEPT !.pc = "done", !.queue = u.queue, !.reached = u.reached,
                 !.exc = exc, !.error = error]

\* execute() up to the loop of _process_request: Submitted, Working,
\* generate_payload, then the session upsert (ADK) or the text of the
\* message (LangChain: Failed and return when there is none)
TurnBegin ==
    /\ executor.made
    /\ turn.pc = "idle"
    /\ \E context \in RequestContexts(1), upsert \in BOOLEAN :
         LET u0 == Updater(<<>>, FALSE)
             u1 == IF Submits(context)
                   THEN update_status(u0, "submitted", FALSE, FALSE, executor.terminal_guard).u
                   ELSE u0
             w == update_status(u1, "working", FALSE, FALSE, executor.terminal_guard).u
             payload == generate_payload(context)
             began == [turn EXCEPT !.context = context]
         IN /\ IsAdk \/ upsert
            /\ turn' =
                 IF payload.raised
                 THEN [began EXCEPT !.pc = "done", !.queue = w.queue, !.exc = payload.exc]
                 ELSE IF IsAdk /\ ~upsert
                 THEN [began EXCEPT !.pc = "done", !.queue = w.queue, !.exc = "RuntimeError"]
                 ELSE IF ~IsAdk /\ context.message = "empty"
                 THEN [began EXCEPT
                         !.pc = "done",
                         !.queue = update_status(w, "failed", TRUE, TRUE,
                                                 executor.terminal_guard).u.queue,
                         !.reached = TRUE]
                 ELSE [began EXCEPT !.pc = "stream", !.queue = w.queue]
    /\ UNCHANGED <<executor, notTurn>>

\* the runtime yields one event and the loop body handles it
TurnEvent ==
    /\ turn.pc = "stream"
    /\ Len(turn.events) < MaxTurnEvents
    /\ \E e \in IF IsAdk THEN AdkEvents ELSE Items :
         LET u == Updater(turn.queue, turn.reached)
             p == IF IsAdk THEN AdkBody(u, e, executor.terminal_guard)
                  ELSE LangChainBody(u, e, executor.terminal_guard)
             l == ExceptOf(p.u, p.exc)
             consumed == [turn EXCEPT !.events = Append(@, e)]
         IN turn' =
              IF p.exc # ""
              THEN [consumed EXCEPT !.pc = "done", !.queue = l.u.queue,
                                    !.reached = l.u.reached, !.exc = l.exc, !.error = l.error]
              ELSE [consumed EXCEPT !.pc = IF p.goes_on THEN "stream" ELSE "done",
                                    !.queue = p.u.queue, !.reached = p.u.reached]
    /\ UNCHANGED <<executor, notTurn>>

\* the runtime raises while the loop waits for the next event
TurnRaises ==
    /\ turn.pc = "stream"
    /\ LET l == ExceptOf(Updater(turn.queue, turn.reached), "RuntimeError")
       IN turn' = TurnDone(l.u, l.exc, l.error)
    /\ UNCHANGED <<executor, notTurn>>

\* the runtime's stream ends and the loop is left normally
TurnEnds ==
    /\ turn.pc = "stream"
    /\ turn' = [turn EXCEPT !.pc = "done"]
    /\ UNCHANGED <<executor, notTurn>>

TurnNext == ExecutorConstruct \/ TurnBegin \/ TurnEvent \/ TurnRaises \/ TurnEnds

---------------------------------------------------------------------------
(* Remote agent registry (agents/frameworks/a2a_agent_communication.py) *)

MaxRemotes == 3

\* one entry of remote_agent_configs with what its processing meets:
\*   empty  the entry is an empty dict
\*   auth   "noauth" | "cognito" (valid) | "missing" (no "auth" key) | "invalid"
\*   fetch  the agent card request: "ok" | "error"
\*   build  RemoteAgentConnections(card, auth): "ok" | "error"
RemoteEntry(empty, auth, fetch, build) ==
    [empty |-> empty, auth |-> auth, fetch |-> fetch, build |-> build]

\* AuthConfig(**config.get("auth"))
MakeAuthConfig(config) ==
    IF config.empty \/ config.auth = "missing" THEN Raise("TypeError")
    ELSE IF config.auth = "invalid" THEN Raise("ValidationError")
    ELSE Ret(Some(config.auth))

\* the name on the card the i-th address serves
CardName(i) == "agent" \o ToString(i)
JsonDumps(name) == "{\"name\": \"" \o name \o "\", \"description\": \"remote " \o name \o "\"}"
RECURSIVE Join(_, _)
Join(q, sep) ==
    IF Len(q) = 0 THEN ""
    ELSE IF Len(q) = 1 THEN q[1]
    ELSE q[1] \o sep \o Join(Tail(q), sep)

\* body of the try of one loop pass: the card request, then the connection
TryBody(config) ==
    IF config.fetch = "error" THEN Raise("A2AClientHTTPError")
    ELSE IF config.build = "error" THEN Raise("ValueError")
    ELSE Ret(NoneVal)

\* remote_agent_connections and cards are dicts keyed by card name, kept as
\* their keys in insertion order; clients holds the values of
\* remote_agent_connections, each RemoteAgentConnections object named by the
\* list entry it was built for
NoRegistry ==
    [made |-> FALSE, strategy |-> "", remote_agent_configs |-> NoArg,
     remote_agent_connections |-> <<>>, clients |-> <<>>,
     cards |-> <<>>, agents |-> "", is_initialized |-> FALSE]
NoInit == [pc |-> "idle", i |-> 0, exc |-> ""]

\* what send_message reads of its tool_context: the ADK session state with
\* its "remote_agent_contexts" dict (None when the key is absent, else the
\* agent names that have a context id), the LangChain thread_id
ToolState(remote_agent_contexts, thread_id) ==
    [remote_agent_contexts |-> remote_agent_contexts, thread_id |-> thread_id]
NoState == ToolState(NoneVal, NoneVal)
NoToolCall ==
    [op |-> "", pc |-> "idle", agent_name |-> "", state |-> NoState,
     state_after |-> NoState, is_initialized |-> FALSE, exc |-> "", message |-> "",
     sent |-> <<>>, result |-> ""]

\* d[k] = ... on the keys of a dict, and on its values
DictSet(keys, k) == IF k \in Range(keys) THEN keys ELSE Append(keys, k)
DictSetValue(keys, values, k, v) ==
    IF k \in Range(keys)
    THEN [j \in 1..Len(keys) |-> IF keys[j] = k THEN v ELSE values[j]]
    ELSE Append(values, v)
DictGet(keys, values, k) == values[CHOOSE j \in 1..Len(keys) : keys[j] = k]

\* the three subclasses of AgentStrategy
Strategies == {"adk", "langchain", "strands"}

\* inputs: None, the empty list, and every list of up to MaxRemotes entries
EntryKinds ==
    {RemoteEntry(FALSE, "noauth", "ok", "ok"), RemoteEntry(FALSE, "cognito", "ok", "ok"),
     RemoteEntry(TRUE, "missing", "ok", "ok"), RemoteEntry(FALSE, "missing", "ok", "ok"),
     RemoteEntry(FALSE, "invalid", "ok", "ok"), RemoteEntry(FALSE, "noauth", "error", "ok"),
     RemoteEntry(FALSE, "cognito", "ok", "error")}
ConfigLists == UNION {[1..n -> EntryKinds] : n \in 0..MaxRemotes}
ConfigArgs == {NoArg} \cup {Arg(l) : l \in ConfigLists}

RegistryInit ==
    /\ registry = NoRegistry
    /\ initCall = NoInit
    /\ toolCall = NoToolCall

\* A2AAgentCommunicationBase.__init__(remote_agent_configs), reached through
\* the constructor of one of the strategies
RegistryConstruct ==
    /\ ~registry.made
    /\ \E remote_agent_configs \in ConfigArgs, strategy \in Strategies :
         registry' = [NoRegistry EXCEPT !.made = TRUE,
                                        !.strategy = strategy,
                                        !.remote_agent_configs = remote_agent_configs]
    /\ UNCHANGED <<initCall, toolCall, notRegistry>>

\* initialize() up to the loop: nothing to do for no list, an empty list or
\* a first entry that is empty
InitializeBegin ==
    /\ registry.made
    /\ initCall.pc = "idle"
    /\ LET configs == registry.remote_agent_configs IN
       IF ~configs.given \/ Len(configs.items) = 0 \/ configs.items[1].empty
       THEN /\ registry' = [registry EXCEPT !.is_initialized = TRUE]
            /\ initCall' = [initCall EXCEPT !.pc = "done"]
       ELSE /\ initCall' = [initCall EXCEPT !.pc = "loop", !.i = 1]
            /\ UNCHANGED registry
    /\ UNCHANGED <<toolCall, notRegistry>>

\* one pass of the loop up to its await: AuthConfig outside the try, then
\* the card request is sent and initialize() waits for its answer
InitializeEntry ==
    /\ initCall.pc = "loop"
    /\ initCall.i <= Len(registry.remote_agent_configs.items)
    /\ LET i == initCall.i
           config == registry.remote_agent_configs.items[i]
           auth == MakeAuthConfig(config)
       IN IF auth.raised
          THEN initCall' = [initCall EXCEPT !.pc = "done", !.exc = auth.exc]
          ELSE initCall' = [initCall EXCEPT !.pc = "fetch"]
    /\ UNCHANGED <<registry, toolCall, notRegistry>>

\* the await of get_agent_card() resumes: the rest of the try of this pass,
\* its except, and on to the next entry
CardResponse ==
    /\ initCall.pc = "fetch"
    /\ LET i == initCall.i
           config == registry.remote_agent_configs.items[i]
           body == TryBody(config)
       IN /\ initCall' = [initCall EXCEPT !.pc = "loop", !.i = i + 1]
          /\ IF body.raised /\ "Exception" \in Ancestors(body.exc)
             THEN UNCHANGED registry
             ELSE registry' =
                    [registry EXCEPT
                       !.remote_agent_connections = DictSet(@, CardName(i)),
                       !.clients = DictSetValue(registry.remote_agent_connections, @,
                                                CardName(i), i),
                       !.cards = DictSet(@, CardName(i))]
    /\ UNCHANGED <<toolCall, notRegistry>>

\* after the loop: the agents text when something was registered
InitializeEnd ==
    /\ initCall.pc = "loop"
    /\ initCall.i > Len(registry.remote_agent_configs.items)
    /\ registry' =
         [registry EXCEPT
            !.agents = IF Len(registry.remote_agent_connections) = 0 THEN @
                       ELSE Join([k \in 1..Len(registry.cards) |-> JsonDumps(registry.cards[k])],
                                 "\n"),
            !.is_initialized = TRUE]
    /\ initCall' = [initCall EXCEPT !.pc = "done"]
    /\ UNCHANGED <<toolCall, notRegistry>>

\* variant: the connection registered first, whatever the name
Lookup_FirstConnection(self, agent_name) ==
    IF Len(self.clients) = 0 THEN 0 ELSE self.clients[1]
\* the lookup every send_message starts with: the connection stored under
\* agent_name, 0 when there is none
Lookup(self, agent_name) ==
    IF agent_name \notin Range(self.remote_agent_connections) THEN 0
    ELSE DictGet(self.remote_agent_connections, self.clients, agent_name)

NotFound(agent_name, state) ==
    [exc |-> "ValueError", message |-> "Agent '" \o agent_name \o "' not found.",
     state |-> state, client |-> 0]

\* ADKAgentStrategy.send_message up to its transport call: the lookup, then
\* a context id for this agent is kept in the session state
AdkSendMessage(self, agent_name, state) ==
    LET client == Lookup(self, agent_name) IN
    IF client = 0 THEN NotFound(agent_name, state)
    ELSE LET contexts == IF state.remote_agent_contexts.some
                         THEN state.remote_agent_contexts.v ELSE {}
         IN [exc |-> "", message |-> "",
             state |-> [state EXCEPT
                          !.remote_agent_contexts = Some(contexts \cup {agent_name})],
             client |-> client]

\* LangChainAgentStrategy.send_message up to its transport call
LangChainSendMessage(self, agent_name, state) ==
    LET client == Lookup(self, agent_name) IN
    IF client = 0 THEN NotFound(agent_name, state)
    ELSE [exc |-> "", message |-> "", state |-> state, client |-> client]

\* StrandsAgentStrategy.send_message up to its transport call
StrandsSendMessage(self, agent_name, state) ==
    LET client == Lookup(self, agent_name) IN
    IF client = 0 THEN NotFound(agent_name, state)
    ELSE [exc |-> "", message |-> "", state |-> state, client |-> client]

send_message(self, agent_name, state) ==
    CASE self.strategy = "adk" -> AdkSendMessage(self, agent_name, state)
      [] self.strategy = "langchain" -> LangChainSendMessage(self, agent_name, state)
      [] OTHER -> StrandsSendMessage(self, agent_name, state)

\* what the transport yields last: a Task, a (Task, update) tuple, a Message,
\* nothing at all, or an error of the client
Responses == {"task", "tuple", "message", "none", "error"}

\* the end of send_message: the last response, unpacked, when it is a Task
SendResult(response) ==
    IF response = "error" THEN Raise("A2AClientHTTPError")
    ELSE IF response \in {"task", "tuple"} THEN Ret(Some("Task"))
    ELSE Ret(NoneVal)

\* A2AAgentCommunicationBase.list_remote_agents
list_remote_agents(self) == self.cards

\* check_active_agent(context) of the three strategies
check_active_agent(self, session_active, active_agent) ==
    IF self.strategy # "adk" THEN Raise("NotImplementedError")
    ELSE IF session_active = "true" /\ active_agent.some THEN Ret(active_agent)
    ELSE Ret(Some("None"))

\* inputs of the calls on the strategy
AgentNames == {CardName(1), CardName(2), "ghost"}
ToolStates(strategy) ==
    CASE strategy = "adk" ->
           {ToolState(NoneVal, NoneVal), ToolState(Some({}), NoneVal),
            ToolState(Some({CardName(1)}), NoneVal)}
      [] strategy = "langchain" -> {ToolState(NoneVal, Some("thread1"))}
      [] OTHER -> {NoState}
SessionActive == {"absent", "false", "true"}
ActiveAgents == {NoneVal, Some(CardName(1))}

\* send_message(agent_name, task, tool_context) up to its await on the
\* transport, or to the raise of the lookup
SendMessageCall ==
    /\ registry.made
    /\ toolCall.pc # "transport"
    /\ \E agent_name \in AgentNames, state \in ToolStates(registry.strategy) :
         LET r == send_message(registry, agent_name, state) IN
         toolCall' = [NoToolCall EXCEPT
                        !.op = "send_message",
                        !.pc = IF r.exc = "" THEN "transport" ELSE "done",
                        !.agent_name = agent_name,
                        !.state = state,
                        !.state_after = r.state,
                        !.is_initialized = registry.is_initialized,
                        !.exc = r.exc,
                        !.message = r.message,
                        !.sent = IF r.exc = "" THEN <<r.client>> ELSE <<>>]
    /\ UNCHANGED <<registry, initCall, notRegistry>>

\* the transport answered: send_message returns the Task, or None, or raises
SendMessageReturn ==
    /\ toolCall.pc = "transport"
    /\ \E response \in Responses :
         LET r == SendResult(response) IN
         toolCall' = [toolCall EXCEPT
                        !.pc = "done",
                        !.exc = IF r.raised THEN r.exc ELSE "",
                        !.result = IF r.raised THEN ""
                                   ELSE IF r.val.some THEN r.val.v ELSE "None"]
    /\ UNCHANGED <<registry, initCall, notRegistry>>

\* variant: listing consumes the cards
ListRemoteAgents_DrainsCards ==
    /\ registry.made
    /\ toolCall.pc # "transport"
    /\ toolCall' = [NoToolCall EXCEPT
                      !.op = "list_remote_agents",
                      !.pc = "done",
                      !.is_initialized = registry.is_initialized,
                      !.sent = list_remote_agents(registry)]
    /\ registry' = [registry EXCEPT !.cards = <<>>]
    /\ UNCHANGED <<initCall, notRegistry>>
\* list_remote_agents()
ListRemoteAgents ==
    /\ registry.made
    /\ toolCall.pc # "transport"
    /\ toolCall' = [NoToolCall EXCEPT
                      !.op = "list_remote_agents",
                      !.pc = "done",
                      !.is_initialized = registry.is_initialized,
                      !.sent = list_remote_agents(registry)]
    /\ UNCHANGED <<registry, initCall, notRegistry>>

\* check_active_agent(context)
CheckActiveAgent ==
    /\ registry.made
    /\ toolCall.pc # "transport"
    /\ \E session_active \in SessionActive, active_agent \in ActiveAgents :
         LET r == check_active_agent(registry, session_active, active_agent) IN
         toolCall' = [NoToolCall EXCEPT
                        !.op = "check_active_agent",
                        !.pc = "done",
                        !.is_initialized = registry.is_initialized,
                        !.exc = IF r.raised THEN r.exc ELSE "",
                        !.result = IF r.raised THEN "" ELSE r.val.v]
    /\ UNCHANGED <<registry, initCall, notRegistry>>

RegistryNext ==
    \/ RegistryConstruct \/ InitializeBegin \/ InitializeEntry \/ CardResponse
    \/ InitializeEnd
    \/ SendMessageCall \/ SendMessageReturn \/ ListRemoteAgents \/ CheckActiveAgent

---------------------------------------------------------------------------
(* Response normalizer (a2a/client/app_client.py, A2AGatewayClient.send_message) *)

MaxFrames == 2

\* a response object by what the code asks of it:
\*   artifacts  the attribute: "absent" | "empty" | "nonempty"
\*   parts      hasattr(obj, "parts")
\*   shape      "model" (has model_dump) | "mapping" (dict(obj) works) |
\*              "asdict" (has _asdict) | "dict" (a dict) | "opaque"
\*   id, event, type   the attribute when there is one (NoneVal when not)
Obj(artifacts, parts, shape, id, event, type) ==
    [artifacts |-> artifacts, parts |-> parts, shape |-> shape, id |-> id, event |-> event,
     type |-> type]
NoObj == Obj("absent", FALSE, "opaque", NoneVal, NoneVal, NoneVal)

\* a frame: the object itself, a tuple of `arity` items starting with it, a
\* root-wrapped result, or a root-wrapped JSON-RPC error
Frame(wrap, arity, obj) == [wrap |-> wrap, arity |-> arity, obj |-> obj]

\* model_dump(exclude_none=True) if there is one, else dict(obj)
DumpOrDict(obj) ==
    IF obj.shape = "model" THEN Ret(Some("model_dump"))
    ELSE IF obj.shape \in {"mapping", "dict"} THEN Ret(Some("dict"))
    ELSE Raise("TypeError")

\* a data dict: how it was made and its "id" entry
Data(kind, id) == [kind |-> kind, id |-> id]
Event(event, data, id) == [event |-> event, data |-> data, id |-> id]

\* the "id" entry a dump of the object holds by itself
OwnId(obj) == IF obj.shape \in {"model", "asdict"} THEN obj.id ELSE NoneVal

\* outcome of one pass of the loop: the event yielded (if any), whether the
\* generator returns, the exception raised
Yield(e) == [yielded |-> <<e>>, returns |-> FALSE, exc |-> ""]
YieldReturn(e) == [yielded |-> <<e>>, returns |-> TRUE, exc |-> ""]
Throw(exc) == [yielded |-> <<>>, returns |-> FALSE, exc |-> exc]

\* data["id"] = getattr(item, "id", rid) if hasattr(item, "id") else rid
DataId(obj, rid) == IF obj.id.some THEN obj.id ELSE Some(rid)

\* `getattr(item, "event", None) or getattr(item, "type", None) or "update"`
EventName(obj) ==
    IF obj.event.some /\ obj.event.v # "" THEN obj.event.v
    ELSE IF obj.type.some /\ obj.type.v # "" THEN obj.type.v
    ELSE "update"

\* the payload of the last branch
Payload(obj) ==
    IF obj.shape = "model" THEN Data("model_dump", OwnId(obj))
    ELSE IF obj.shape = "asdict" THEN Data("_asdict", OwnId(obj))
    ELSE IF obj.shape = "dict" THEN Data("dict", NoneVal)
    ELSE Data("value", NoneVal)

\* body of the `async for` of send_message
NormalizeFrame(frame, rid) ==
    IF frame.wrap = "root_error" THEN YieldReturn(Event("error", Data("error", NoneVal), rid))
    ELSE IF frame.wrap = "root" THEN
        LET d == DumpOrDict(frame.obj) IN
        IF d.raised THEN Throw(d.exc)
        ELSE Yield(Event("message", Data(d.val.v, DataId(frame.obj, rid)), rid))
    ELSE IF frame.wrap = "tuple" /\ frame.arity # 2 THEN Throw("ValueError")
    ELSE
    LET item == frame.obj IN
    IF item.artifacts = "nonempty" \/ item.parts THEN
        LET d == DumpOrDict(item) IN
        IF d.raised THEN Throw(d.exc)
        ELSE Yield(Event("message", Data(d.val.v, DataId(item, rid)), rid))
    ELSE Yield(Event(EventName(item), Payload(item), rid))

\* inputs: ids and frames
IdArgs == {NoneVal, Some(""), Some("r1")}
MessageIdArgs == {NoneVal, Some("m1")}
Uuid4Hex == "0123456789abcdef0123456789abcdef"
Names == {<<NoneVal, NoneVal>>, <<Some("progress"), NoneVal>>, <<NoneVal, Some("status")>>,
          <<Some(""), Some("status")>>, <<Some("progress"), Some("status")>>}
Objs ==
    {Obj(a, p, s, i, n[1], n[2]) :
        a \in {"absent", "empty", "nonempty"}, p \in BOOLEAN,
        s \in {"model", "mapping", "asdict", "opaque"}, i \in {NoneVal, Some("t1")}, n \in Names}
    \cup {Obj("absent", FALSE, "dict", NoneVal, NoneVal, NoneVal)}
\* what the A2A client wraps: pydantic models and objects of no known shape
WrappedObjs == {o \in Objs : o.shape \in {"model", "opaque"} /\ ~(o.event.some /\ o.type.some)}
Frames ==
    {Frame("plain", 1, o) : o \in Objs} \cup {Frame("tuple", 2, o) : o \in WrappedObjs}
    \cup {Frame("root", 1, o) : o \in WrappedObjs}
    \cup {Frame("tuple", 3, NoObj), Frame("root_error", 1, NoObj)}

NoNorm ==
    [pc |-> "idle", request_id |-> NoneVal, message_id |-> NoneVal, rid |-> "", consumed |-> 0,
     frame |-> Frame("plain", 1, NoObj), events |-> <<>>, exc |-> ""]

NormalizerInit == norm = NoNorm

\* send_message(text, message_id=..., request_id=...): mid and rid
SendMessage ==
    /\ norm.pc = "idle"
    /\ \E request_id \in IdArgs, message_id \in MessageIdArgs :
         LET mid == IF message_id.some /\ message_id.v # "" THEN message_id.v ELSE Uuid4Hex
             rid == IF request_id.some /\ request_id.v # "" THEN request_id.v ELSE mid
         IN norm' = [NoNorm EXCEPT !.pc = "streaming", !.request_id = request_id,
                                   !.message_id = message_id, !.rid = rid]
    /\ UNCHANGED notNormalizer

\* the agent client yields one frame and the loop body handles it
NextFrame ==
    /\ norm.pc = "streaming"
    /\ norm.consumed < MaxFrames
    /\ \E frame \in Frames :
         LET r == NormalizeFrame(frame, norm.rid) IN
         norm' = [norm EXCEPT !.consumed = @ + 1, !.frame = frame,
                              !.events = @ \o r.yielded, !.exc = r.exc,
                              !.pc = IF r.returns \/ r.exc # "" THEN "done" ELSE "streaming"]
    /\ UNCHANGED notNormalizer

\* the agent client's stream ends
StreamEnds ==
    /\ norm.pc = "streaming"
    /\ norm' = [norm EXCEPT !.pc = "done"]
    /\ UNCHANGED notNormalizer

NormalizerNext == SendMessage \/ NextFrame \/ StreamEnds

---------------------------------------------------------------------------
(* Specifications *)

Init ==
    GatewayInit /\ ServingInit /\ CacheInit /\ RaceInit /\ InterceptorInit /\ ChainInit /\ ExecutorInit /\ TurnInit
    /\ RegistryInit
    /\ NormalizerInit

SpecGateway == Init /\ [][GatewayNext]_vars

SpecServing == Init /\ [][ServingNext]_vars

SpecCache == Init /\ [][CacheNext]_vars

SpecRace == Init /\ [][RaceNext]_vars

SpecInterceptor == Init /\ [][InterceptorNext]_vars

SpecChain == Init /\ [][ChainNext]_vars

SpecExecutor == Init /\ [][ExecutorNext]_vars

SpecExecute == Init /\ [][ExecuteNext]_vars

SpecTurn == Init /\ [][TurnNext]_vars

SpecRegistry == Init /\ [][RegistryNext]_vars

SpecNormalizer == Init /\ [][NormalizerNext]_vars

---------------------------------------------------------------------------
(* Vocabulary of the gateway claims, stated from the inputs of a dispatch *)

Called(op) == op \in Range(last.calls)

\* the gateway was configured for NoAuth: no security requirement, or auth type noauth
ConfiguredNoAuth ==
    \/ ctorArgs.agent_card.security.isNone
    \/ Len(ctorArgs.agent_card.security.items) = 0
    \/ (~ctorArgs.auth.isNone /\ ctorArgs.auth.type = "noauth")

\* a dispatch of an auth-enabled gateway on a non-public path has been answered
ProtectedDispatch ==
    /\ ctor = "ok"
    /\ last.busy
    /\ last.request.path \notin ctorArgs.public_paths
    /\ ~ConfiguredNoAuth

\* R: the claims of the first entry of the first declared security requirement
RequiredR ==
    LET first == ctorArgs.agent_card.security.items[1] IN
    IF first.kind = "dict" THEN first.entries[1].claims ELSE <<>>

\* S of a scope string: its maximal runs of non-whitespace characters
ScopeSet(s) ==
    {SubSeq(s, i, j) : i \in 1..Len(s), j \in 1..Len(s)} \cap
    {w \in {SubSeq(s, i, j) : i \in 1..Len(s), j \in 1..Len(s)} :
        \E i \in 1..Len(s) :
            /\ i + Len(w) - 1 <= Len(s)
            /\ Len(w) > 0
            /\ SubSeq(s, i, i + Len(w) - 1) = w
            /\ \A k \in i..(i + Len(w) - 1) : ~IsSpace(SubSeq(s, k, k))
            /\ (i = 1 \/ IsSpace(SubSeq(s, i - 1, i - 1)))
            /\ (i + Len(w) - 1 = Len(s) \/ IsSpace(SubSeq(s, i + Len(w), i + Len(w))))}

\* the Authorization header of the request starts with "Bearer "
HasBearer ==
    /\ "authorization" \in DOMAIN last.request.headers
    /\ StartsWith(last.request.headers["authorization"], "Bearer ")

WantsEventStream == Contains(AcceptOf(last.request), "text/event-stream")

\* the reason of a gateway response, whichever body carries it
ReasonOf(out, category) ==
    IF out.media_type = "text/event-stream"
    THEN (IF StartsWith(out.text, "error " \o category \o ": ")
          THEN SubSeq(out.text, Len("error " \o category \o ": ") + 1, Len(out.text))
          ELSE "?")
    ELSE out.json.reason

\* the JWKS call of this dispatch failed as a request: requests raised a RequestException
JwksRequestFailed ==
    \/ mw.security_scheme.badUrl
    \/ (last.env.k = "raise" /\ "RequestException" \in Ancestors(last.env.exc))

\* the bearer token is one PyJWT accepts against the key document served
TokenGenuine(token, doc) ==
    /\ Jwt(token).wellformed
    /\ Jwt(token).alg = "RS256"
    /\ ~Jwt(token).expired
    /\ doc.shape = "keys"
    /\ [kid |-> Jwt(token).kid, mat |-> Jwt(token).sig] \in doc.keys

---------------------------------------------------------------------------
(* C1 *)

\* C1 (fail-closed gateway): on a protected dispatch the next handler is called only
\* if the key set was fetched, a bearer token was extracted, validate_token returned
\* a payload for that token against those keys and every required claim is in the
\* payload's scopes; every other outcome is a 401, 403 or 503 response.
C1_FailClosed ==
    ProtectedDispatch =>
        IF Called("call_next")
        THEN /\ last.calls = <<"get_keys", "get_token", "validate_token", "check_claims", "call_next">>
             /\ last.env.k = "json" /\ ~last.keys.raised /\ last.keys.val = last.env.doc
             /\ HasBearer /\ ~last.token.raised
             /\ ~last.payload.raised /\ TokenGenuine(last.token.val, last.env.doc)
             /\ last.payload.val.scope = Jwt(last.token.val).scope
             /\ last.payload.val.scope.kind \in {"absent", "str"}
             /\ Range(RequiredR) \subseteq ScopeSet(last.payload.val.scope.v)
        ELSE /\ last.out.kind = "response"
             /\ last.out.status \in {401, 403, 503}

\* the forwarding half of C1 alone: it holds, the half about the other outcomes fails
C1_ForwardOnlyIfAuthorized ==
    (ProtectedDispatch /\ Called("call_next")) =>
        /\ ~last.keys.raised /\ ~last.token.raised /\ ~last.payload.raised
        /\ TokenGenuine(last.token.val, last.env.doc)
        /\ Range(RequiredR) \subseteq ScopeSet(last.payload.val.scope.v)

---------------------------------------------------------------------------
(* C2 *)

\* a token has been validated and its scope field is a string or absent
ValidatedWithScopes ==
    /\ ProtectedDispatch
    /\ Called("validate_token")
    /\ ~last.payload.raised
    /\ last.payload.val.scope.kind \in {"absent", "str"}

\* C2 (claim enforcement): after a token has been validated, with R the required
\* claims and S the whitespace-split scope (empty when absent), the request is
\* forwarded iff every element of R is in S; otherwise the answer is 403 and its
\* reason names exactly the elements of R that are not in S.
C2_ClaimEnforcement ==
    ValidatedWithScopes =>
        LET S == ScopeSet(last.payload.val.scope.v)
            lacking == SelectSeq(RequiredR, LAMBDA c : c \notin S)
        IN IF Range(RequiredR) \subseteq S
           THEN last.out.kind = "next" /\ Called("call_next")
           ELSE /\ ~Called("call_next")
                /\ last.out.kind = "response"
                /\ last.out.status = 403
                /\ ReasonOf(last.out, "forbidden")
                     = "Missing required claims: " \o ReprList(lacking)

\* R = [admin] and the validated scopes lack admin: 403 naming admin
C2_Witness ==
    /\ ValidatedWithScopes
    /\ RequiredR = <<"admin">>
    /\ last.payload.val.scope = StrScope("readadmin")
    /\ last.out.status = 403
    /\ last.out.json.reason = "Missing required claims: ['admin']"

---------------------------------------------------------------------------
(* C3 *)

NoBearerOnProtected == ProtectedDispatch /\ ~HasBearer

Json401 ==
    /\ last.out.kind = "response"
    /\ last.out.status = 401
    /\ ~Called("call_next")
    /\ (~WantsEventStream =>
          /\ last.out.media_type = "application/json"
          /\ last.out.json.error = "unauthorized")

\* C3 as stated: every protected request without a Bearer header is answered 401
\* (JSON {error: unauthorized, reason} unless the client accepts an event stream),
\* whatever the JWKS endpoint does.
C3_NoBearerAlways401 == NoBearerOnProtected => Json401

\* C3 as amended: every protected request without a Bearer header is answered 401
\* (JSON {error: unauthorized, reason} unless the client accepts an event stream),
\* except when the JWKS request, which dispatch makes first, fails: then the answer
\* is 503. The next handler is never called.
C3_NoBearer401UnlessFetchFails ==
    NoBearerOnProtected =>
        IF JwksRequestFailed
        THEN last.out.kind = "response" /\ last.out.status = 503 /\ ~Called("call_next")
        ELSE Json401

\* no Authorization header, the key set was served: 401 JSON, reason Invalid auth header
C3_Witness ==
    /\ NoBearerOnProtected
    /\ "authorization" \notin DOMAIN last.request.headers
    /\ last.calls = <<"get_keys", "get_token">>
    /\ last.out = JSONResponse("unauthorized", "Invalid auth header", 401)

---------------------------------------------------------------------------
(* C4 *)

\* the JWKS endpoint could not be reached or answered an error status
JwksUnreachable ==
    \/ mw.security_scheme.badUrl
    \/ (last.env.k = "raise"
        /\ last.env.exc \in {"Timeout", "ConnectionError", "HTTPError", "TooManyRedirects"})

\* the JWKS endpoint answered 200 with a body that is not JSON
JwksNotJson ==
    /\ ~mw.security_scheme.badUrl
    /\ last.env.k = "raise"
    /\ last.env.exc \in {"RequestsJSONDecodeError", "JSONDecodeError"}

\* C4 (failure-to-status mapping): a failure to reach the JWKS endpoint gives 503; a
\* JWKS response that is not JSON gives 401; a missing or malformed bearer header, an
\* expired or invalid token and any unexpected exception give 401; 503 is returned
\* for a JWKS fetch failure and for nothing else.
C4_FailureStatusMapping ==
    (ProtectedDispatch /\ last.out.kind = "response") =>
        /\ (JwksUnreachable => last.out.status = 503)
        /\ (JwksNotJson => last.out.status = 401)
        /\ ((last.keys.raised /\ ~JwksUnreachable) => last.out.status = 401)
        /\ ((last.token.raised /\ Called("get_token")) => last.out.status = 401)
        /\ ((last.payload.raised /\ Called("validate_token")) => last.out.status = 401)
        /\ (last.out.status = 503 => JwksUnreachable)

---------------------------------------------------------------------------
(* C5 *)

\* C5 (no auth error escapes): every dispatch on a protected path ends by returning
\* a response, the next handler's or a 401/403/503 of the gateway, and never by
\* raising, whatever payload validate_token returned.
C5_NoErrorEscapes ==
    ProtectedDispatch =>
        \/ last.out.kind = "next"
        \/ (last.out.kind = "response" /\ last.out.status \in {401, 403, 503})

---------------------------------------------------------------------------
(* C6 *)

EmptySecurityList ==
    /\ ctor # "pending"
    /\ ~ctorArgs.agent_card.isNone
    /\ ~ctorArgs.agent_card.security.isNone
    /\ Len(ctorArgs.agent_card.security.items) = 0

\* C6 (empty security list): construction from a card whose security list is empty
\* fails with ConfigurationError; it never yields a gateway that lets requests through.
C6_EmptySecurityFails ==
    EmptySecurityList => (ctor = "ConfigurationError" /\ mw = NoMw)

---------------------------------------------------------------------------
(* C7 *)

\* the first security requirement names a scheme the card does not declare, or is
\* neither a scheme name nor a name-to-claims mapping
UndeclaredOrMisshapen ==
    /\ ctor # "pending"
    /\ ~ctorArgs.agent_card.isNone
    /\ ~ctorArgs.agent_card.security.isNone
    /\ Len(ctorArgs.agent_card.security.items) > 0
    /\ LET first == ctorArgs.agent_card.security.items[1]
           declared == {x.name : x \in ctorArgs.agent_card.security_schemes.decl}
       IN \/ first.kind = "other"
          \/ (first.kind = "str" /\ first.name \notin declared)
          \/ (first.kind = "dict" /\ Len(first.entries) > 0
              /\ first.entries[1].name \notin declared)

\* C7 (undeclared scheme, wrong shape): construction fails with ConfigurationError
\* and no other exception, no gateway object exists and no request is dispatched.
C7_UndeclaredSchemeFails ==
    UndeclaredOrMisshapen => (ctor = "ConfigurationError" /\ mw = NoMw /\ ~last.busy)

\* an undeclared scheme name with no schemes declared at all, and no auth config
C7_Witness ==
    /\ UndeclaredOrMisshapen
    /\ ctorArgs.agent_card.security.items[1].kind = "dict"
    /\ ctorArgs.agent_card.security_schemes.isNone
    /\ ctorArgs.auth.isNone
    /\ ctor = "ConfigurationError"

---------------------------------------------------------------------------
(* C8 *)

BypassCase ==
    /\ ctor = "ok"
    /\ last.busy
    /\ (last.request.path \in ctorArgs.public_paths \/ ConfiguredNoAuth)

\* C8 (bypass): a request to a public path, and every request to a gateway
\* configured for NoAuth, reaches the next handler with no key fetch, no token
\* extraction and no claim check.
C8_Bypass ==
    BypassCase => (last.calls = <<"call_next">> /\ last.out.kind = "next")

\* a NoAuth gateway forwards a non-public request that carries a malformed header
C8_Witness ==
    /\ BypassCase
    /\ last.request.path \notin ctorArgs.public_paths
    /\ ~ctorArgs.agent_card.security.isNone
    /\ Len(ctorArgs.agent_card.security.items) > 0
    /\ "authorization" \in DOMAIN last.request.headers
    /\ last.request.headers["authorization"] = "Basic abc"
    /\ last.out.kind = "next"

---------------------------------------------------------------------------
(* C9 *)

WithAccept(request, a) ==
    [request EXCEPT !.headers =
        [n \in (DOMAIN request.headers) \cup {"accept"} |->
            IF n = "accept" THEN a ELSE request.headers[n]]]

\* the same request and JWKS answer, dispatched with another Accept header
Redispatch(a) == Dispatch(mw, WithAccept(last.request, a), last.env).out

TextCategory(status) ==
    CASE status = 401 -> "unauthorized"
      [] status = 403 -> "forbidden"
      [] OTHER -> "service unavailable"

\* the JSON error field per status, with `unavailable` the word used for 503
JsonCategory(status, unavailable) ==
    CASE status = 401 -> "unauthorized"
      [] status = 403 -> "forbidden"
      [] OTHER -> unavailable

Rejected == ctor = "ok" /\ last.busy /\ last.out.kind = "response"

\* the body follows the Accept header, the status does not
Negotiated(unavailable) ==
    LET asJson == Redispatch("application/json")
        asText == Redispatch("text/event-stream")
    IN /\ last.out.status \in {401, 403, 503}
       /\ asJson.status = last.out.status /\ asText.status = last.out.status
       /\ asJson.media_type = "application/json"
       /\ asJson.json.error = JsonCategory(last.out.status, unavailable)
       /\ asText.media_type = "text/event-stream"
       /\ asText.text = "error " \o TextCategory(last.out.status) \o ": " \o asJson.json.reason
       /\ last.out = (IF WantsEventStream THEN asText ELSE asJson)

\* C9 as stated: an event-stream client gets `error <category>: <reason>` starting
\* with error unauthorized, error forbidden or error service unavailable; any other
\* client gets JSON {error, reason} with the same category and reason; the status
\* does not depend on Accept.
C9_SameCategory == Rejected => Negotiated("service unavailable")

\* C9 as amended: as stated, except that the JSON error field of a 503 is
\* service_unavailable while the text body says service unavailable; for 401 and
\* 403 the two categories are the same word.
C9_ContentNegotiation == Rejected => Negotiated("service_unavailable")

\* a 503 sent to an event-stream client
C9_Witness ==
    /\ Rejected
    /\ WantsEventStream
    /\ last.out = PlainTextResponse("error service unavailable: Unable to fetch JWKS", 503)
    /\ Redispatch("application/json")
         = JSONResponse("service_unavailable", "Unable to fetch JWKS", 503)

---------------------------------------------------------------------------
(* C10 *)

\* the instance held a non-empty token whose grant gave it the expiry e
HoldingToken ==
    /\ call.made
    /\ call.held_before.defined
    /\ call.token_before = Some(call.held_before.token)
    /\ call.held_before.token # ""

\* e: fetch time plus expires_in of the token held when the call was made
ExpiryE == call.held_before.fetched + call.held_before.expires_in

ServedFromCache == call.posts = 0 /\ ~call.result.raised /\ call.result.val = call.token_before

\* one POST was sent, and unless the call raised it returned the token just issued
Regranted ==
    /\ call.posts = 1
    /\ (~call.result.raised =>
          (call.result.val = Some(call.issued) /\ _access_token = Some(call.issued)))

\* C10 as stated: with a token of expiry e held, a call at now < e - 60 is served
\* from the cache, a call at now >= e - 60 performs a new grant, and with nothing
\* cached a grant is always performed.
C10_RefetchFromBoundary ==
    /\ ((HoldingToken /\ call.t < ExpiryE - 60) => ServedFromCache)
    /\ ((HoldingToken /\ call.t >= ExpiryE - 60) => Regranted)
    /\ ((call.made /\ ~call.token_before.some) => Regranted)

\* C10 as amended: with a non-empty token of expiry e held, a call at now <= e - 60
\* (the instant e - 60 included) is served from the cache without a POST, a call at
\* now > e - 60 performs a new grant and returns the newly issued token unless the
\* grant raises, and with nothing cached a grant is always performed.
C10_RefetchAfterBoundary ==
    /\ ((HoldingToken /\ call.t <= ExpiryE - 60) => ServedFromCache)
    /\ ((HoldingToken /\ call.t > ExpiryE - 60) => Regranted)
    /\ ((call.made /\ ~call.token_before.some) => Regranted)

\* a call at the instant e - 60 exactly, answered with the cached token
C10_Witness ==
    /\ HoldingToken
    /\ call.t = ExpiryE - 60
    /\ call.t > call.held_before.fetched
    /\ ServedFromCache

\* a call after the boundary that returned a newly issued token
C10_WitnessRegrant ==
    /\ HoldingToken
    /\ call.t = ExpiryE - 60 + 1
    /\ call.posts = 1
    /\ ~call.result.raised
    /\ call.result.val # call.token_before

---------------------------------------------------------------------------
(* Vocabulary of the header propagation claim *)

\* the headers offered for propagation: the propagation_headers entry when
\* it is a dict, nothing otherwise
Offered ==
    IF icall.context.some /\ "propagation_headers" \in DOMAIN icall.context.state
       /\ icall.context.state["propagation_headers"].isdict
    THEN icall.context.state["propagation_headers"].d
    ELSE EmptyDict

\* header k of the offer is on the outbound request with the offered value
Forwarded(k) ==
    /\ icall.out.http_kwargs.has_headers
    /\ k \in DOMAIN icall.out.http_kwargs.headers
    /\ icall.out.http_kwargs.headers[k] = Offered[k]

HopByHop == {"connection", "keep-alive", "transfer-encoding", "te", "trailer", "upgrade",
             "host", "content-length"}
BlockedNames == IF hpi.allow_authorization THEN HopByHop ELSE HopByHop \cup {"authorization", "cookie"}

MatchesAllowlist(lower) ==
    \/ lower \in hpi.allowed_names
    \/ \E i \in 1..Len(hpi.allowed_prefixes) : StartsWith(lower, hpi.allowed_prefixes[i])

\* the same call with every context entry but propagation_headers dropped
OnlyPropagation(context) ==
    IF context.some
    THEN Context([n \in DOMAIN context.state \cap {"propagation_headers"} |-> context.state[n]])
    ELSE context

DefaultHpi == hpi = HpiInit(NoArg, NoArg, FALSE)
ScenarioOffer ==
    /\ DOMAIN Offered = {"x-mapfre-trace-id", "authorization"}
    /\ Offered["x-mapfre-trace-id"] = PyVal("str", "abc")
    /\ Offered["authorization"] = PyVal("str", "secret")

\* C11: a header of propagation_headers is forwarded if and only if its value
\* is a str or bytes, its lower-cased name is not blocked (hop-by-hop, host,
\* content-length, and authorization/cookie unless allow_authorization) and
\* its lower-cased name is an allowed name or starts with an allowed prefix,
\* for every allowlist; nothing else is added to or changed on the request;
\* the outcome depends on no other entry of the context state; and the
\* default interceptor offered {x-mapfre-trace-id: abc, authorization: secret}
\* forwards x-mapfre-trace-id only.
C11_StrictForwarding ==
    icall.busy =>
      /\ \A k \in DOMAIN Offered :
           Forwarded(k) <=>
             /\ Offered[k].kind \in {"str", "bytes"}
             /\ Lower(k) \notin BlockedNames
             /\ MatchesAllowlist(Lower(k))
      /\ \A k \in DOMAIN icall.out.http_kwargs.headers :
           \/ k \in DOMAIN Offered /\ Forwarded(k)
           \/ /\ k \in DOMAIN icall.http_kwargs.headers
              /\ icall.out.http_kwargs.headers[k] = icall.http_kwargs.headers[k]
      /\ icall.out.request_payload = "payload"
      /\ intercept(hpi, "payload", icall.http_kwargs, OnlyPropagation(icall.context)) = icall.out
      /\ (DefaultHpi /\ ScenarioOffer) =>
           /\ Forwarded("x-mapfre-trace-id")
           /\ ~Forwarded("authorization")

\* a custom allowlist names a blocked header and it is still not forwarded,
\* next to a header that is
C11_Witness ==
    /\ icall.busy
    /\ "host" \in hpi.allowed_names
    /\ "Host" \in DOMAIN Offered /\ Offered["Host"].kind = "str" /\ ~Forwarded("Host")
    /\ "x-mapfre-trace-id" \in DOMAIN Offered /\ Forwarded("x-mapfre-trace-id")

\* the scenario of the default configuration
C11_WitnessScenario ==
    /\ icall.busy
    /\ DefaultHpi
    /\ ScenarioOffer
    /\ "headers" \in DOMAIN icall.context.state

---------------------------------------------------------------------------
(* Vocabulary of the executor claims *)

Done(c) == exec[c].pc = "done"
IsStatus(e, state) == e.type = "status" /\ e.state = state
Emitted(c, state) == \E i \in 1..Len(event_queue[c]) : IsStatus(event_queue[c][i], state)

\* C12: no session leak: every id in the active-session set was registered
\* by an execute call that is still inside its event loop; so the id a call
\* registered is gone once that call has ended, by return, by an exception
\* during event consumption or by cancellation of the call, and the set is
\* empty whenever no execute call is in flight, whatever cancel calls and
\* other execute calls were interleaved.
C12_NoSessionLeak ==
    /\ \A s \in _active_sessions :
         \E c \in Calls : exec[c].pc = "stream" /\ exec[c].session_id = s
    /\ (\A c \in Calls : ~InFlight(c)) => _active_sessions = {}

\* an ADK call raised partway through event consumption next to a call that
\* was cancelled inside its loop, and nothing is left in the set
C12_Witness ==
    /\ IsAdk
    /\ \E c, d \in Calls :
         /\ Done(c) /\ exec[c].exc = "RuntimeError" /\ exec[c].consumed >= 1
         /\ Done(d) /\ exec[d].exc = "CancelledError" /\ exec[d].consumed >= 1
         /\ exec[c].session_id = exec[d].session_id
    /\ _active_sessions = {}

\* a Failed status marked final is on the queue of call c
FailedFinal(c) ==
    \E i \in 1..Len(event_queue[c]) :
        IsStatus(event_queue[c][i], "failed") /\ event_queue[c][i].final

\* C13: failure reporting order: whenever an exception (other than the
\* cancellation of the call) has left execute, in either adapter, a Failed
\* status marked final had been put on the queue first and the exception
\* that left is ServerError carrying InternalError.
C13_FailedBeforeRaise ==
    \A c \in Calls :
        (Done(c) /\ exec[c].exc \notin {"", "CancelledError"}) =>
            /\ FailedFinal(c)
            /\ exec[c].exc = "ServerError"
            /\ exec[c].error = "InternalError"

\* the session id the cancel call in progress resolves to, as the claim
\* states it
Resolved ==
    IF cancelCall.context.session_header.some THEN cancelCall.context.session_header.v
    ELSE cancelCall.context.context_id

Lead(c) == IF exec[c].context.current_task THEN 0 ELSE 1
PlainWorking(e) == IsStatus(e, "working") /\ ~e.message /\ ~e.final

\* C19: task lifecycle order: the queue of every execute call starts with
\* Submitted if and only if the context had no existing task, Submitted is
\* nowhere else, the next event is Working, and every artifact,
\* Working-with-content, Completed, Failed and InputRequired comes after it.
C19_LifecycleOrder ==
    \A c \in Calls :
        LET q == event_queue[c] IN
        /\ \A i \in 1..Len(q) : IsStatus(q[i], "submitted") <=> i <= Lead(c)
        /\ Len(q) > Lead(c) => PlainWorking(q[Lead(c) + 1])
        /\ exec[c].pc \in {"upsert", "stream"} => Len(q) > Lead(c)
        /\ exec[c].pc = "entered" => Len(q) = Lead(c)

\* one call continued a task and failed, another started one and completed
C19_Witness ==
    \E c, d \in Calls :
        /\ Done(c) /\ exec[c].context.current_task /\ Emitted(c, "failed")
        /\ Len(event_queue[c]) >= 2 /\ PlainWorking(event_queue[c][1])
        /\ Done(d) /\ ~exec[d].context.current_task /\ Emitted(d, "completed")
        /\ IsStatus(event_queue[d][1], "submitted")

\* an event that ends the task or the turn
Terminal(e) ==
    \/ IsStatus(e, "completed")
    \/ IsStatus(e, "failed")
    \/ IsStatus(e, "input-required") /\ e.final
IsCompleted(e) == IsStatus(e, "completed")
IsArtifact(e) == e.type = "artifact"

\* C20: terminal states are terminal: in the queue of an execute call no
\* status and no artifact follows a Completed, a Failed or an InputRequired
\* that ends the turn, and there is at most one Completed and at most one
\* artifact.
C20_TerminalIsTerminal ==
    \A c \in Calls :
        LET q == event_queue[c] IN
        /\ \A i \in 1..Len(q) : Terminal(q[i]) => i = Len(q)
        /\ Cardinality({i \in 1..Len(q) : IsCompleted(q[i])}) <= 1
        /\ Cardinality({i \in 1..Len(q) : IsArtifact(q[i])}) <= 1

---------------------------------------------------------------------------
(* Vocabulary of the registry claims *)

\* entry i of the list can be processed: it has a valid auth config, its
\* card can be fetched and its connection can be built
Processable(i) ==
    LET config == registry.remote_agent_configs.items[i] IN
    /\ ~config.empty
    /\ config.auth \in {"noauth", "cognito"}
    /\ config.fetch = "ok"
    /\ config.build = "ok"

Entries == IF registry.remote_agent_configs.given
           THEN 1..Len(registry.remote_agent_configs.items) ELSE {}

\* C15: partial-failure tolerance: for every list of remote entries,
\* initialize() ends without raising, with is_initialized set and a
\* connection registered for every entry that can be processed, whatever
\* fails for other entries and wherever they sit in the list.
C15_PartialFailureTolerance ==
    initCall.pc = "done" =>
        /\ initCall.exc = ""
        /\ registry.is_initialized
        /\ \A i \in Entries : Processable(i) => CardName(i) \in Range(registry.remote_agent_connections)

---------------------------------------------------------------------------
(* Vocabulary of the normalizer claims *)

\* the event yielded for the last frame consumed, when there is one
Answered == norm.consumed > 0 /\ Len(norm.events) = norm.consumed
LastEvent == norm.events[Len(norm.events)]
ErrorEnvelope == norm.frame.wrap = "root_error"
\* the response object of the frame, out of its envelope or tuple
TheObject == norm.frame.obj

\* the event name the rules of the claim give the last frame
RuleName ==
    IF ErrorEnvelope THEN "error"
    ELSE IF TheObject.artifacts = "nonempty" THEN "message"
    ELSE IF TheObject.parts THEN "message"
    ELSE IF TheObject.event.some /\ TheObject.event.v # "" THEN TheObject.event.v
    ELSE IF TheObject.type.some /\ TheObject.type.v # "" THEN TheObject.type.v
    ELSE "update"

\* C16: normalizer rule priority: every frame consumed has given exactly one
\* event, named by the first rule that matches (error envelope: error;
\* non-empty artifacts: message; message parts: message; else the object's
\* event field, else its type field, else update), with exactly the keys
\* event, data and id.
C16_RulePriority ==
    norm.consumed > 0 =>
        /\ Len(norm.events) = norm.consumed
        /\ LastEvent.event = RuleName
        /\ \A i \in 1..Len(norm.events) : DOMAIN norm.events[i] = {"event", "data", "id"}

\* the correlation id the claim gives the call for its last frame
ClaimedId ==
    IF norm.request_id.some /\ norm.request_id.v # "" THEN norm.request_id.v
    ELSE IF TheObject.id.some THEN TheObject.id.v
    ELSE IF norm.message_id.some /\ norm.message_id.v # "" THEN norm.message_id.v
    ELSE Uuid4Hex

\* C17: normalizer correlation id: the id of an event is the explicit
\* request id, else the object's own id, else the generated default; all
\* events of a call have the same top-level id; and an object with non-empty
\* artifacts under request id r1 gives event message with id r1 and data.id
\* r1, with or without an id of its own.
C17_CorrelationId ==
    Answered =>
        /\ LastEvent.id = ClaimedId
        /\ \A i, j \in 1..Len(norm.events) : norm.events[i].id = norm.events[j].id
        /\ (norm.request_id = Some("r1") /\ norm.frame.wrap # "root_error"
            /\ TheObject.artifacts = "nonempty") =>
               /\ LastEvent.event = "message"
               /\ LastEvent.id = "r1"
               /\ LastEvent.data.id = Some("r1")

\* no better payload applies to the object: no model dump, no _asdict, not
\* a mapping
NothingBetter == TheObject.shape = "opaque"

\* C18: the normalizer never raises on a frame: every frame that is not an
\* error envelope gives an event and the loop goes on to the next frame, and
\* the data is {value: <string form>} when nothing better applies.
C18_NeverRaises ==
    (norm.consumed > 0 /\ ~ErrorEnvelope) =>
        /\ norm.exc = ""
        /\ Len(norm.events) = norm.consumed
        /\ norm.pc = "streaming"
        /\ NothingBetter => LastEvent.data.kind = "value"

---------------------------------------------------------------------------
(* Vocabulary of the strategy claims *)

\* a step that starts a send_message call, and a step of a call on the strategy
SendMessageStarts ==
    /\ toolCall.pc # "transport"
    /\ toolCall' # toolCall
    /\ toolCall'.op = "send_message"
ToolStep == toolCall' # toolCall

Connections == registry.remote_agent_connections

\* C21: send_message with a name that has no connection raises the ValueError
\* naming the agent before any transport call, leaving the registry and the
\* caller's context state as they were; with a name that has one, the message
\* goes through the connection built for that agent and through no other,
\* up to the return of the call.
C21_SendMessageRouting ==
    [][/\ SendMessageStarts =>
            LET agent_name == toolCall'.agent_name IN
            /\ registry' = registry
            /\ IF agent_name \notin Range(Connections)
               THEN /\ toolCall'.pc = "done"
                    /\ toolCall'.exc = "ValueError"
                    /\ Contains(toolCall'.message, agent_name)
                    /\ toolCall'.sent = <<>>
                    /\ toolCall'.state_after = toolCall'.state
               ELSE /\ toolCall'.exc = ""
                    /\ Len(toolCall'.sent) = 1
                    /\ CardName(toolCall'.sent[1]) = agent_name
                    /\ toolCall'.sent[1] \in Range(registry.clients)
       /\ toolCall.pc = "transport" /\ ToolStep =>
            /\ toolCall'.sent = toolCall.sent
            /\ toolCall'.agent_name = toolCall.agent_name
            /\ registry' = registry]_vars

C21_Witness ==
    /\ toolCall.op = "send_message"
    /\ toolCall.exc = "ValueError"
    /\ toolCall.sent = <<>>
    /\ toolCall.is_initialized
    /\ Len(Connections) >= 2

\* the entries of the two maps of the registry
MapEntries(r) == <<r.remote_agent_connections, r.clients, r.cards>>

\* C25: the registry is write-once: only a step of initialize() changes an
\* entry of the connection map or of the card map, every connection is keyed
\* by the name of the card it was built from, and once initialize() has
\* returned no call on the strategy (send_message found or not,
\* list_remote_agents, check_active_agent) adds, removes or replaces an entry.
C25_WriteOnce ==
    [][/\ MapEntries(registry') # MapEntries(registry) =>
            /\ initCall' # initCall
            /\ initCall.pc = "fetch"
            /\ toolCall' = toolCall
       /\ ToolStep => MapEntries(registry') = MapEntries(registry)
       /\ initCall.pc = "done" => MapEntries(registry') = MapEntries(registry)
       /\ \A k \in 1..Len(registry'.remote_agent_connections) :
            /\ registry'.remote_agent_connections[k] = CardName(registry'.clients[k])
            /\ registry'.cards[k] = registry'.remote_agent_connections[k]
       /\ Len(registry'.clients) = Len(registry'.remote_agent_connections)
       /\ Len(registry'.cards) = Len(registry'.remote_agent_connections)]_vars

C25_Witness ==
    /\ initCall.pc = "done"
    /\ Len(Connections) >= 2
    /\ toolCall.op = "send_message"
    /\ toolCall.pc = "done"
    /\ toolCall.is_initialized
    /\ toolCall.result = "Task"

\* the card request of entry j has been sent; its answer has been consumed
FetchStarted(j) ==
    \/ j < initCall.i
    \/ j = initCall.i /\ initCall.pc = "fetch"
FetchFinished(j) == j < initCall.i

\* C24: discovery fans out: while initialize() works through its list, the
\* card requests of all the remotes are in flight together, so no request
\* has been answered while the request of another remote is still unsent.
C24_ConcurrentDiscovery ==
    initCall.pc \in {"loop", "fetch"} =>
        \A j, k \in Entries : FetchFinished(j) => FetchStarted(k)

---------------------------------------------------------------------------
(* Vocabulary of the serving claim *)

\* request r waits for the JWKS endpoint inside get_keys
AwaitsJwks(r) == served[r].pc = "get_keys"

\* C22: a slow auth check does not stall sibling requests: while the dispatch
\* of one request waits for the JWKS fetch, every other request served by
\* the process can take a step of its own dispatch.
C22_AuthDoesNotStall ==
    \A r, q \in Serving : r # q /\ AwaitsJwks(r) => ENABLED ServeStep(q)

---------------------------------------------------------------------------
(* Vocabulary of the session and turn claims *)

\* call c is between its session upsert (ADK) or the start of its stream
\* (LangChain) and its exit
Running(c) == exec[c].pc = "stream"

\* C23: a session id is registered for the whole duration of its execution:
\* with no cancel() call at all, in every interleaving of the execute calls
\* of one executor (two calls of one session included) and for each adapter,
\* the session id of every call that is past its session upsert and has not
\* left is in the active-session set.
C23_RegisteredWhileRunning ==
    \A c \in Calls : Running(c) => exec[c].session_id \in _active_sessions

\* C30: every turn reaches an end state: an execute call that has returned
\* without raising has put a Completed, a Failed or an InputRequired status
\* on its queue, whatever the runtime yielded.
C30_TurnReachesEnd ==
    \A c \in Calls :
        (Done(c) /\ exec[c].exc = "") =>
            \/ Emitted(c, "completed")
            \/ Emitted(c, "failed")
            \/ Emitted(c, "input-required")

\* a step of the turn that consumed a runtime event, the event, and what
\* the step put on the queue
TurnConsumes == Len(turn'.events) = Len(turn.events) + 1
Consumed == turn'.events[Len(turn'.events)]
Put == SubSeq(turn'.queue, Len(turn.queue) + 1, Len(turn'.queue))

\* C27: the ADK loop, event by event: a final event puts one artifact and
\* then a Completed status marked final on the queue and ends the
\* consumption; an event that is not final and has no function call puts
\* one Working status with a message; an event that is not final and has a
\* function call puts nothing; the loop goes on after both.
C27_AdkEventLoop ==
    [][(IsAdk /\ TurnConsumes) =>
          IF Consumed.final
          THEN /\ Put = <<ArtifactEvent, StatusEvent("completed", TRUE, FALSE)>>
               /\ turn'.pc = "done" /\ turn'.exc = ""
          ELSE IF ~Consumed.calls
          THEN /\ Put = <<StatusEvent("working", FALSE, TRUE)>>
               /\ turn'.pc = "stream"
          ELSE /\ Put = <<>>
               /\ turn'.pc = "stream"]_vars

\* C28: the LangChain loop, item by item: require_user_input puts one
\* InputRequired status marked final with the content as message and no
\* artifact, whatever is_task_complete says; else is_task_complete puts one
\* artifact and then Completed; else nothing is put; and a request whose
\* message has no text puts Failed marked final last and consumes no item.
C28_LangChainFlags ==
    [][(~IsAdk /\ executor.made) =>
          /\ TurnConsumes =>
               IF Consumed.require_user_input
               THEN Put = <<StatusEvent("input-required", TRUE, TRUE)>>
               ELSE IF Consumed.is_task_complete
               THEN Put = <<ArtifactEvent, StatusEvent("completed", TRUE, FALSE)>>
               ELSE Put = <<>>
          /\ (turn.pc = "idle" /\ turn'.pc # "idle" /\ turn'.context.message = "empty") =>
               /\ turn'.pc = "done" /\ turn'.exc = "" /\ turn'.events = <<>>
               /\ Put[Len(Put)] = StatusEvent("failed", TRUE, TRUE)]_vars

---------------------------------------------------------------------------
(* Vocabulary of the token race claim *)

Returned(k) == callers[k].pc = "done" /\ ~callers[k].result.raised

\* C29: token cache consistency under races: in every interleaving of the
\* get_credentials calls of one instance, whatever the token endpoint
\* answers, a call that returns normally returns a non-empty token, and the
\* cached token and the cached expiry come from one and the same grant
\* response.
C29_CacheConsistency ==
    /\ \A k \in Callers :
         Returned(k) => callers[k].result.val.some /\ callers[k].result.val.v # ""
    /\ _access_token.some =>
         /\ held.defined
         /\ held.token = _access_token.v
         /\ _expires_at = held.fetched + held.expires_in - Skew

---------------------------------------------------------------------------
(* Vocabulary of the interceptor chain claim                               *)

\* the header names SessionInterceptor sets for a context: the keys of its
\* str/bytes state entries and the str/bytes entries of the nested
\* propagation_headers map
SessionSets(context) ==
    IF ~context.some THEN {}
    ELSE UNION {IF context.state[i].key = "propagation_headers" /\ context.state[i].kind = "dict"
                THEN {n \in DOMAIN context.state[i].d :
                        context.state[i].d[n].kind \in {"str", "bytes"}}
                ELSE IF context.state[i].kind \in {"str", "bytes"}
                THEN {context.state[i].key}
                ELSE {} : i \in 1..Len(context.state)}
\* the header names the AuthInterceptor of the chain sets
AuthSets ==
    IF \E i \in 1..Len(chain.interceptors) : chain.interceptors[i] = "AuthInterceptor"
    THEN (IF chain.credential = "" THEN {} ELSE {"Authorization"})
    ELSE {}
ChainApplied == chain.pc \in {"once", "twice"}

====
